---- MODULE Spec2Model ----
(***************************************************************************)
(* Memory orchestration layer of OpenManus: MemoryManager                  *)
(* (src/src/knowledge/memory.py) with its retrieval methods                *)
(* (memory_retrieval.py) over the GraphDatabase adapter (graph_db.py,      *)
(* Neo4j) and the VectorDatabase adapter (vector_db.py, ChromaDB), and the *)
(* workflow node knowledge_agent (src/src/agents/knowledge_agent.py).      *)
(*                                                                         *)
(* State: the content of the two stores, the manager's initialized flag,   *)
(* and a record of the last public call (its arguments, the store calls it *)
(* issued with their results, and what it returned).  Every public method  *)
(* is one action; the outcome of each store call (the store answers, or    *)
(* the call fails and the adapter swallows the exception) is an input of   *)
(* the action.  For callers that share one manager, callers holds the      *)
(* position and the local variables of each caller's running call, and     *)
(* every store call is a step of its own (specification SpecCallers).      *)
(*                                                                         *)
(* Left out: wall-clock timestamps (every timestamp field), the embedding  *)
(* distance of a hit, and the JSON text of an entity's property map.       *)
(***************************************************************************)
EXTENDS Integers, Sequences, FiniteSets, TLC

VARIABLES nodes, rels, nextId, vdocs, initialized, call, callers

vars == <<nodes, rels, nextId, vdocs, initialized, call, callers>>

(***************************************************************************)
(* Bounds of the model.                                                    *)
(***************************************************************************)
\* graph node ids are 0 .. MaxNodes-1: no call starts that could need more
MaxNodes == 4

(***************************************************************************)
(* Python values.                                                          *)
(***************************************************************************)
\* None where an Optional[int] node id is expected (graph_db.py:66,77,80)
None == -1
\* None where an Optional[str] is expected: no Python string has this value
NoneStr == "<None>"

\* bool(x) of an Optional[int]: None and 0 are both falsy
Truthy(x) == x # None /\ x # 0

\* bool(s) of an Optional[str]: None and "" are both falsy
TruthyStr(s) == s # NoneStr /\ s # ""

Digit == <<"0", "1", "2", "3", "4", "5", "6", "7", "8", "9">>

\* str(n) of a non-negative int: its decimal digits
RECURSIVE Str(_)
Str(n) == IF n < 10 THEN Digit[n + 1] ELSE Str(n \div 10) \o Digit[(n % 10) + 1]

\* the ints whose decimal form the model can meet
IntRange == 0 .. (MaxNodes + 1)

\* int(s) succeeds exactly on a decimal numeral; otherwise it raises ValueError
IsInt(s) == \E n \in IntRange : Str(n) = s

ParseInt(s) == CHOOSE n \in IntRange : Str(n) = s

\* {**a, **b}: the keys of both, b's value where both have the key
Merge(a, b) == [k \in (DOMAIN a) \cup (DOMAIN b) |-> IF k \in DOMAIN b THEN b[k] ELSE a[k]]

EmptyDict == [k \in {} |-> ""]

\* d.get(k): the value, or None when the key is absent
Get(d, k) == IF k \in DOMAIN d THEN d[k] ELSE NoneStr

(***************************************************************************)
(* The stores, as one value w = [nodes, rels, nextId, vdocs, trace] that   *)
(* the adapter calls transform; trace lists the adapter calls made so far  *)
(* by the running operation, each with the store's outcome (ok) and the    *)
(* value the adapter returned (ret).                                       *)
(***************************************************************************)
LastRet(w) == w.trace[Len(w.trace)].ret

\* GraphDatabase.create_node: CREATE (n:label {props}) RETURN id(n); None on
\* any exception.  Neo4j numbers the nodes of a fresh database from 0.
create_node(w, label, properties, ok) ==
    IF ok
    THEN [w EXCEPT !.nodes = @ \cup {[id |-> w.nextId, label |-> label, props |-> properties]},
                   !.nextId = @ + 1,
                   !.trace = Append(@, [fn |-> "create_node", label |-> label,
                                        props |-> properties, ok |-> TRUE, ret |-> w.nextId])]
    ELSE [w EXCEPT !.trace = Append(@, [fn |-> "create_node", label |-> label,
                                        props |-> properties, ok |-> FALSE, ret |-> None])]

\* GraphDatabase.create_relationship: MATCH (a),(b) WHERE id(a)=start AND
\* id(b)=end CREATE (a)-[r:type]->(b); True iff a record came back
create_relationship(w, start_node_id, end_node_id, relationship_type, ok) ==
    LET found == (\E a \in w.nodes : a.id = start_node_id) /\ (\E b \in w.nodes : b.id = end_node_id)
        entry == [fn |-> "create_relationship", start |-> start_node_id, end |-> end_node_id,
                  type |-> relationship_type, ok |-> ok, ret |-> (ok /\ found)]
    IN  IF ok /\ found
        THEN [w EXCEPT !.rels = @ \cup {[start |-> start_node_id, end |-> end_node_id,
                                         type |-> relationship_type]},
                       !.trace = Append(@, entry)]
        ELSE [w EXCEPT !.trace = Append(@, entry)]

\* chromadb's Collection.add raises ValueError for an id that is not a str, for
\* a metadata value that is None, and for an id the collection already holds
CollectionAddAccepts(w, metadata, id) ==
    /\ id # NoneStr
    /\ \A k \in DOMAIN metadata : metadata[k] # NoneStr
    /\ \A d \in w.vdocs : d.id # id

\* VectorDatabase.add_documents with one document, one metadata map and one
\* id (the list ids=[x] is never empty, so no uuid is minted); any exception
\* of collection.add is swallowed and False returned
add_documents(w, document, metadata, id, ok) ==
    LET accepted == ok /\ CollectionAddAccepts(w, metadata, id)
        entry == [fn |-> "add_documents", document |-> document, metadata |-> metadata,
                  id |-> id, ok |-> ok, ret |-> accepted]
    IN  IF accepted
        THEN [w EXCEPT !.vdocs = @ \cup {[id |-> id, document |-> document, metadata |-> metadata]},
                       !.trace = Append(@, entry)]
        ELSE [w EXCEPT !.trace = Append(@, entry)]

(***************************************************************************)
(* MemoryManager.initialize and the lazy guard at the head of every        *)
(* public method: "if not self.initialized and not self.initialize()".     *)
(***************************************************************************)
\* the two connect calls of initialize(); both are always made
InitTrace(gc, vc) ==
    IF initialized THEN <<>>
    ELSE << [fn |-> "graph_connect", ok |-> gc, ret |-> gc],
            [fn |-> "vector_connect", ok |-> vc, ret |-> vc] >>

\* mutant of InitResult: the vector store's connect result ignored
InitResultGraphOnly(gc, vc) == initialized \/ gc

\* the value of self.initialized after the guard
InitResult(gc, vc) == initialized \/ (gc /\ vc)

World(gc, vc) ==
    [nodes |-> nodes, rels |-> rels, nextId |-> nextId, vdocs |-> vdocs, trace |-> InitTrace(gc, vc)]

\* the stores as a value, outside a call
Stores == [nodes |-> nodes, rels |-> rels, nextId |-> nextId, vdocs |-> vdocs, trace |-> <<>>]

\* the callers that share the manager
Callers == {1, 2}

\* a caller that has no call running
Idle == [pc |-> "idle"]

\* the frame of a finished public call
Finish(w, record) ==
    /\ nodes' = w.nodes
    /\ rels' = w.rels
    /\ nextId' = w.nextId
    /\ vdocs' = w.vdocs
    /\ call' = record @@ [trace |-> w.trace]
    /\ UNCHANGED callers

(***************************************************************************)
(* MemoryManager.store_fact                                                *)
(***************************************************************************)
Facts == {"Ann works at Acme"}

Sources == {NoneStr, "test"}

\* an entity dict; type NoneStr is a dict without the key "type"
Ann == [name |-> "Ann", type |-> "Person"]

Acme == [name |-> "Acme", type |-> NoneStr]

\* the related_entities arguments tried: none, and two entities
EntityLists == {<<>>, <<Ann, Acme>>}

\* source or "agent"
SourceOrAgent(source) == IF TruthyStr(source) THEN source ELSE "agent"

\* entity.get("type", "Entity")
EntityLabel(entity) == IF entity.type = NoneStr THEN "Entity" ELSE entity.type

\* mutant of EntityLoopGuard: the test on fact_node_id forgotten
EntityLoopGuardNoId(related_entities, fact_node_id) == Len(related_entities) > 0

\* "if related_entities and fact_node_id:" (memory.py:69)
EntityLoopGuard(related_entities, fact_node_id) ==
    Len(related_entities) > 0 /\ Truthy(fact_node_id)

\* mutant of StoreFactEntities: the loop is left at the first entity whose
\* node or relationship could not be created
RECURSIVE StoreFactEntitiesAbort(_, _, _, _, _, _)
StoreFactEntitiesAbort(w, fact_node_id, related_entities, eOk, rOk, i) ==
    IF i > Len(related_entities) THEN w
    ELSE LET entity == related_entities[i]
             w1 == create_node(w, EntityLabel(entity),
                               [name |-> entity.name, properties |-> "{}"], eOk[i])
             entity_node_id == LastRet(w1)
             w2 == IF Truthy(entity_node_id)
                   THEN create_relationship(w1, fact_node_id, entity_node_id, "MENTIONS", rOk[i])
                   ELSE w1
         IN  IF ~Truthy(entity_node_id) \/ ~LastRet(w2) THEN w2
             ELSE StoreFactEntitiesAbort(w2, fact_node_id, related_entities, eOk, rOk, i + 1)

\* the loop of memory.py:70-78 from entity i on: a node per entity, and a
\* MENTIONS relationship when the node id is truthy
RECURSIVE StoreFactEntities(_, _, _, _, _, _)
StoreFactEntities(w, fact_node_id, related_entities, eOk, rOk, i) ==
    IF i > Len(related_entities) THEN w
    ELSE LET entity == related_entities[i]
             w1 == create_node(w, EntityLabel(entity),
                               [name |-> entity.name, properties |-> "{}"], eOk[i])
             entity_node_id == LastRet(w1)
             w2 == IF Truthy(entity_node_id)
                   THEN create_relationship(w1, fact_node_id, entity_node_id, "MENTIONS", rOk[i])
                   ELSE w1
         IN  StoreFactEntities(w2, fact_node_id, related_entities, eOk, rOk, i + 1)

\* "graph_id": str(fact_node_id) if fact_node_id else None
GraphIdOf(node_id) == IF Truthy(node_id) THEN Str(node_id) ELSE NoneStr

\* f"fact_{fact_node_id}" if fact_node_id else None
VectorIdOf(prefix, node_id) == IF Truthy(node_id) THEN prefix \o Str(node_id) ELSE NoneStr

\* mutant of StoreFactReturn: "return fact_node_id or None"
StoreFactReturnOrNone(fact_node_id) == IF Truthy(fact_node_id) THEN fact_node_id ELSE None

\* "return fact_node_id" (memory.py:92)
StoreFactReturn(fact_node_id) == fact_node_id

\* mutant of store_fact: the vector document is added before the entity loop
store_factDocumentFirst(w, fact, source, related_entities, factOk, eOk, rOk, vecOk) ==
    LET w1 == create_node(w, "Fact", [content |-> fact, source |-> SourceOrAgent(source)], factOk)
        fact_node_id == LastRet(w1)
        w2 == add_documents(w1, fact,
                            [type |-> "fact", source |-> SourceOrAgent(source),
                             graph_id |-> GraphIdOf(fact_node_id)],
                            VectorIdOf("fact_", fact_node_id), vecOk)
        w3 == IF EntityLoopGuard(related_entities, fact_node_id)
              THEN StoreFactEntities(w2, fact_node_id, related_entities, eOk, rOk, 1)
              ELSE w2
    IN  [w |-> w3, ret |-> StoreFactReturn(fact_node_id)]

\* the body of store_fact after the initialization guard
store_fact(w, fact, source, related_entities, factOk, eOk, rOk, vecOk) ==
    LET w1 == create_node(w, "Fact", [content |-> fact, source |-> SourceOrAgent(source)], factOk)
        fact_node_id == LastRet(w1)
        w2 == IF EntityLoopGuard(related_entities, fact_node_id)
              THEN StoreFactEntities(w1, fact_node_id, related_entities, eOk, rOk, 1)
              ELSE w1
        w3 == add_documents(w2, fact,
                            [type |-> "fact", source |-> SourceOrAgent(source),
                             graph_id |-> GraphIdOf(fact_node_id)],
                            VectorIdOf("fact_", fact_node_id), vecOk)
    IN  [w |-> w3, ret |-> StoreFactReturn(fact_node_id)]

\* the outcomes of the two connect calls, each drawn from F (BOOLEAN when a
\* store may fail, {TRUE} when none does): none is made once initialized
ConnectChoices(F) == IF initialized THEN {<<TRUE, TRUE>>} ELSE F \X F

\* the outcomes a store call can have when it is reached: S; otherwise only d
Only(reached, S, d) == IF reached THEN S ELSE {d}

\* per related entity (or message): both calls succeed, the relationship
\* call fails, or the node call fails (and no relationship call is made)
PairOutcomes(F) == IF FALSE \in F THEN {"ok", "rel_fails", "node_fails"} ELSE {"ok"}

StoreFact(FC, F) ==
    \E fact \in Facts, source \in Sources, related_entities \in EntityLists,
       c \in ConnectChoices(FC) :
    \E factOk \in Only(InitResult(c[1], c[2]), F, TRUE),
       vecOk \in Only(InitResult(c[1], c[2]), F, TRUE) :
    \E eo \in Only(InitResult(c[1], c[2]) /\ factOk,
                   [1 .. Len(related_entities) -> PairOutcomes(F)],
                   [i \in 1 .. Len(related_entities) |-> "ok"]) :
        LET args == [op |-> "store_fact", fact |-> fact, source |-> source,
                     related_entities |-> related_entities]
            w0 == World(c[1], c[2])
            eOk == [i \in 1 .. Len(related_entities) |-> eo[i] # "node_fails"]
            rOk == [i \in 1 .. Len(related_entities) |-> eo[i] = "ok"]
            r == store_fact(w0, fact, source, related_entities, factOk, eOk, rOk, vecOk)
        IN  /\ nextId + 1 + Len(related_entities) <= MaxNodes
            /\ initialized' = InitResult(c[1], c[2])
            /\ IF InitResult(c[1], c[2])
               THEN Finish(r.w, args @@ [ret |-> r.ret])
               ELSE Finish(w0, args @@ [ret |-> None])

(***************************************************************************)
(* MemoryManager.store_conversation                                        *)
(***************************************************************************)
UserMsg == [role |-> "user", content |-> "hi"]

AssistantMsg == [role |-> "assistant", content |-> "hello"]

\* the messages argument tried: two messages
MessageLists == {<<UserMsg, AssistantMsg>>}

Contexts == {NoneStr}

\* the metadata arguments tried: the agent's map (knowledge_agent.py:55), and
\* a map that carries keys the orchestrator also sets
MetadataChoices ==
    {[source |-> "agent_workflow"], [type |-> "fact", graph_id |-> "abc"]}

\* context or ""
ContextOrEmpty(context) == IF TruthyStr(context) THEN context ELSE ""

\* message.get(key, default)
MessageGet(message, key, default) == IF key \in DOMAIN message THEN message[key] ELSE default

\* "\n".join(f"{role}: {content}" for each message), from message i on
RECURSIVE ConversationText(_, _)
ConversationText(messages, i) ==
    IF i > Len(messages) THEN ""
    ELSE LET line == MessageGet(messages[i], "role", "unknown") \o ": "
                     \o MessageGet(messages[i], "content", "")
         IN  IF i = Len(messages) THEN line ELSE line \o "\n" \o ConversationText(messages, i + 1)

\* mutant of StoreMessages: order counts the Message nodes created so far
RECURSIVE StoreMessagesCounting(_, _, _, _, _, _)
StoreMessagesCounting(w, conversation_node_id, messages, mOk, rOk, i) ==
    IF i > Len(messages) THEN w
    ELSE LET message == messages[i]
             w1 == create_node(w, "Message",
                               [role |-> MessageGet(message, "role", "unknown"),
                                content |-> MessageGet(message, "content", ""),
                                order |-> Cardinality({k \in 1 .. (i - 1) : mOk[k]})], mOk[i])
             message_node_id == LastRet(w1)
             w2 == IF Truthy(message_node_id) /\ Truthy(conversation_node_id)
                   THEN create_relationship(w1, conversation_node_id, message_node_id,
                                            "CONTAINS", rOk[i])
                   ELSE w1
         IN  StoreMessagesCounting(w2, conversation_node_id, messages, mOk, rOk, i + 1)

\* the loop of memory.py:120-133 from message i on (enumerate counts from 0)
RECURSIVE StoreMessages(_, _, _, _, _, _)
StoreMessages(w, conversation_node_id, messages, mOk, rOk, i) ==
    IF i > Len(messages) THEN w
    ELSE LET message == messages[i]
             w1 == create_node(w, "Message",
                               [role |-> MessageGet(message, "role", "unknown"),
                                content |-> MessageGet(message, "content", ""),
                                order |-> i - 1], mOk[i])
             message_node_id == LastRet(w1)
             w2 == IF Truthy(message_node_id) /\ Truthy(conversation_node_id)
                   THEN create_relationship(w1, conversation_node_id, message_node_id,
                                            "CONTAINS", rOk[i])
                   ELSE w1
         IN  StoreMessages(w2, conversation_node_id, messages, mOk, rOk, i + 1)

\* the metadata of the conversation's vector document (memory.py:141-147)
ConversationMetadata(context, conversation_node_id, metadata) ==
    Merge([type |-> "conversation", context |-> ContextOrEmpty(context),
           graph_id |-> GraphIdOf(conversation_node_id)], metadata)

\* mutant of StoreConversationReturn: "return conversation_node_id is not None"
StoreConversationReturnIfNode(conversation_node_id) == conversation_node_id # None

\* "return True" (memory.py:151)
StoreConversationReturn(conversation_node_id) == TRUE

\* the body of store_conversation after the initialization guard
store_conversation(w, messages, context, metadata, convOk, mOk, rOk, vecOk) ==
    LET w1 == create_node(w, "Conversation",
                          Merge([context |-> ContextOrEmpty(context)], metadata), convOk)
        conversation_node_id == LastRet(w1)
        w2 == StoreMessages(w1, conversation_node_id, messages, mOk, rOk, 1)
        w3 == add_documents(w2, ConversationText(messages, 1),
                            ConversationMetadata(context, conversation_node_id, metadata),
                            VectorIdOf("conversation_", conversation_node_id), vecOk)
    IN  [w |-> w3, ret |-> StoreConversationReturn(conversation_node_id)]

StoreConversation(FC, F) ==
    \E messages \in MessageLists, context \in Contexts, metadata \in MetadataChoices,
       c \in ConnectChoices(FC) :
    \E convOk \in Only(InitResult(c[1], c[2]), F, TRUE),
       vecOk \in Only(InitResult(c[1], c[2]), F, TRUE) :
    \E mo \in Only(InitResult(c[1], c[2]),
                   [1 .. Len(messages) -> PairOutcomes(F)],
                   [i \in 1 .. Len(messages) |-> "ok"]) :
        LET args == [op |-> "store_conversation", messages |-> messages,
                     context |-> context, metadata |-> metadata]
            w0 == World(c[1], c[2])
            mOk == [i \in 1 .. Len(messages) |-> mo[i] # "node_fails"]
            rOk == [i \in 1 .. Len(messages) |-> mo[i] = "ok"]
            r == store_conversation(w0, messages, context, metadata, convOk, mOk, rOk, vecOk)
        IN  /\ nextId + 1 + Len(messages) <= MaxNodes
            /\ initialized' = InitResult(c[1], c[2])
            /\ IF InitResult(c[1], c[2])
               THEN Finish(r.w, args @@ [ret |-> r.ret])
               ELSE Finish(w0, args @@ [ret |-> FALSE])

(***************************************************************************)
(* MemoryManager.clear_memory                                              *)
(***************************************************************************)
MemoryTypes == {NoneStr, "fact", "conversation"}

\* the graph label that goes with a vector document's type
LabelOfType(type) ==
    IF type = "fact" THEN "Fact" ELSE IF type = "conversation" THEN "Conversation" ELSE NoneStr

\* mutant of DeleteKeywords: delete also declares the parameter where
DeleteKeywordsWithWhere == {"ids", "filter_metadata", "where"}

\* the keyword parameters VectorDatabase.delete declares (vector_db.py:140)
DeleteKeywords == {"ids", "filter_metadata"}

\* a document matches a where-filter when it has every key with that value
Matches(metadata, filter) ==
    \A k \in DOMAIN filter : k \in DOMAIN metadata /\ metadata[k] = filter[k]

\* the body of VectorDatabase.delete: by ids, else by a non-empty filter,
\* else False; any exception is swallowed and False returned
delete(w, ids, filter_metadata, ok) ==
    LET byIds == ids # {}
        byFilter == ~byIds /\ DOMAIN filter_metadata # {}
        gone == IF ~ok THEN {}
                ELSE IF byIds THEN {d \in w.vdocs : d.id \in ids}
                ELSE IF byFilter THEN {d \in w.vdocs : Matches(d.metadata, filter_metadata)}
                ELSE {}
    IN  [w EXCEPT !.vdocs = @ \ gone,
                  !.trace = Append(@, [fn |-> "delete", ok |-> ok, raised |-> FALSE,
                                       ret |-> (ok /\ (byIds \/ byFilter))])]

\* GraphDatabase.query of "MATCH (n:label) DETACH DELETE n" (label NoneStr:
\* "MATCH (n)"): the nodes and every relationship touching one of them
detach_delete(w, label, ok) ==
    LET gone == IF ok THEN {n \in w.nodes : label = NoneStr \/ n.label = label} ELSE {}
        ids == {n.id : n \in gone}
    IN  [w EXCEPT !.nodes = @ \ gone,
                  !.rels = {r \in @ : r.start \notin ids /\ r.end \notin ids},
                  !.trace = Append(@, [fn |-> "detach_delete", label |-> label,
                                       ok |-> ok, ret |-> <<>>])]

\* mutant of clear_memory: whatever the type, every document and every node
\* is deleted
clear_memoryEverything(w, memory_type, delOk, gOk) ==
    [w |-> detach_delete(delete(w, {d.id : d \in w.vdocs}, EmptyDict, delOk), NoneStr, gOk),
     ret |-> TRUE]

\* the body of clear_memory after the initialization guard.  It calls
\* self.vector_db.delete(where=...): a keyword the method does not declare
\* raises TypeError at the call, inside the try, and line 310 returns False
clear_memory(w, memory_type, delOk, gOk) ==
    IF "where" \notin DeleteKeywords
    THEN [w |-> [w EXCEPT !.trace = Append(@, [fn |-> "delete", ok |-> TRUE,
                                               raised |-> TRUE, ret |-> FALSE])],
          ret |-> FALSE]
    ELSE LET filter == IF TruthyStr(memory_type) THEN [type |-> memory_type] ELSE EmptyDict
             w1 == delete(w, {}, filter, delOk)
             w2 == IF memory_type = "fact" THEN detach_delete(w1, "Fact", gOk)
                   ELSE IF memory_type = "conversation" THEN detach_delete(w1, "Conversation", gOk)
                   ELSE IF memory_type = NoneStr THEN detach_delete(w1, NoneStr, gOk)
                   ELSE w1
         IN  [w |-> w2, ret |-> TRUE]

ClearMemory(FC, F) ==
    \E memory_type \in MemoryTypes, c \in ConnectChoices(FC) :
    \E delOk \in Only(InitResult(c[1], c[2]) /\ "where" \in DeleteKeywords, F, TRUE),
       gOk \in Only(InitResult(c[1], c[2]) /\ "where" \in DeleteKeywords, F, TRUE) :
        LET args == [op |-> "clear_memory", memory_type |-> memory_type]
            w0 == World(c[1], c[2])
            r == clear_memory(w0, memory_type, delOk, gOk)
        IN  /\ initialized' = InitResult(c[1], c[2])
            /\ IF InitResult(c[1], c[2])
               THEN Finish(r.w, args @@ [ret |-> r.ret])
               ELSE Finish(w0, args @@ [ret |-> FALSE])

(***************************************************************************)
(* MemoryManager.retrieve_relevant_memories                                *)
(***************************************************************************)
Queries == {"who is Ann"}

\* the limit arguments tried
Limits == {1, 2}

Min(a, b) == IF a < b THEN a ELSE b

\* what collection.query can answer for n_results = n: the n nearest
\* documents, nearest first.  Nearness is the embedding's, so any n distinct
\* documents in any order
QueryAnswers(docs, n) ==
    {h \in [1 .. Min(n, Cardinality(docs)) -> docs] :
        \A i, j \in DOMAIN h : i # j => h[i] # h[j]}

\* VectorDatabase.query without a filter: the formatted hits, or [] on any
\* exception
query(w, query_text, n_results, answer, ok) ==
    LET hits == IF ok THEN answer ELSE <<>>
    IN  [w EXCEPT !.trace = Append(@, [fn |-> "query", query_text |-> query_text,
                                       n_results |-> n_results, ok |-> ok, ret |-> hits])]

\* S in ascending m.order
RECURSIVE OrderByOrder(_)
OrderByOrder(S) ==
    IF S = {} THEN <<>>
    ELSE LET m == CHOOSE x \in S : \A y \in S : x.props.order <= y.props.order
         IN  <<m>> \o OrderByOrder(S \ {m})

\* MATCH (f:Fact)-[:MENTIONS]->(e) WHERE id(f) = id RETURN e (no order is
\* asked for: the answer is kept as the set of nodes)
MentionedBy(w, id) ==
    {e \in w.nodes : \E f \in w.nodes : /\ f.id = id /\ f.label = "Fact"
                                        /\ [start |-> id, end |-> e.id, type |-> "MENTIONS"] \in w.rels}

\* MATCH (c:Conversation)-[:CONTAINS]->(m:Message) WHERE id(c) = id
\* RETURN m ORDER BY m.order
MessagesOf(w, id) ==
    OrderByOrder({m \in w.nodes :
        /\ m.label = "Message"
        /\ \E c \in w.nodes : /\ c.id = id /\ c.label = "Conversation"
                               /\ [start |-> id, end |-> m.id, type |-> "CONTAINS"] \in w.rels})

\* GraphDatabase.query of one of the two enrichment queries: [] on any exception
graph_query(w, kind, id, ok) ==
    LET answer == IF kind = "mentions"
                  THEN (IF ok THEN MentionedBy(w, id) ELSE {})
                  ELSE (IF ok THEN MessagesOf(w, id) ELSE <<>>)
    IN  [w EXCEPT !.trace = Append(@, [fn |-> "graph_query", kind |-> kind, id |-> id,
                                       ok |-> ok, ret |-> answer])]

\* the loop of memory.py:171-190 from hit i on; int(graph_id) raises
\* ValueError on a graph_id that is no numeral, and nothing catches it
RECURSIVE EnrichHits(_, _, _, _, _)
EnrichHits(w, results, gOk, i, enhanced_results) ==
    IF i > Len(results) THEN [w |-> w, ret |-> enhanced_results, raised |-> FALSE]
    ELSE LET result == results[i]
             graph_id == Get(result.metadata, "graph_id")
             type == Get(result.metadata, "type")
             asked == TruthyStr(graph_id) /\ type \in {"fact", "conversation"}
         IN  IF asked /\ ~IsInt(graph_id)
             THEN [w |-> w, ret |-> <<>>, raised |-> TRUE]
             ELSE IF asked /\ type = "fact"
             THEN LET w1 == graph_query(w, "mentions", ParseInt(graph_id), gOk[i])
                  IN  EnrichHits(w1, results, gOk, i + 1,
                                 Append(enhanced_results,
                                        result @@ [related_entities |-> LastRet(w1)]))
             ELSE IF asked
             THEN LET w1 == graph_query(w, "contains", ParseInt(graph_id), gOk[i])
                  IN  EnrichHits(w1, results, gOk, i + 1,
                                 Append(enhanced_results, result @@ [messages |-> LastRet(w1)]))
             ELSE EnrichHits(w, results, gOk, i + 1, Append(enhanced_results, result))

\* the body of retrieve_relevant_memories after the initialization guard
retrieve_relevant_memories(w, query_text, limit, answer, qOk, gOk) ==
    LET w1 == query(w, query_text, limit, answer, qOk)
    IN  EnrichHits(w1, LastRet(w1), gOk, 1, <<>>)

RetrieveRelevantMemories(FC, F) ==
    \E query_text \in Queries, limit \in Limits, c \in ConnectChoices(FC) :
    \E qOk \in Only(InitResult(c[1], c[2]), F, TRUE) :
    \E answer \in Only(InitResult(c[1], c[2]) /\ qOk, QueryAnswers(vdocs, limit), <<>>) :
    \E gOk \in [1 .. Len(answer) -> F] :
        LET args == [op |-> "retrieve_relevant_memories", query |-> query_text, limit |-> limit]
            w0 == World(c[1], c[2])
            r == retrieve_relevant_memories(w0, query_text, limit, answer, qOk, gOk)
        IN  /\ initialized' = InitResult(c[1], c[2])
            /\ IF InitResult(c[1], c[2])
               THEN Finish(r.w, args @@ [ret |-> r.ret, raised |-> r.raised])
               ELSE Finish(w0, args @@ [ret |-> <<>>, raised |-> FALSE])

(***************************************************************************)
(* MemoryManager.query_knowledge_graph: the caller's Cypher statement goes *)
(* to GraphDatabase.query as it is, and session.run executes it, whether   *)
(* it reads or writes.                                                     *)
(***************************************************************************)
ReadStatement == "MATCH (n) RETURN n"

SetStatement == "MATCH (c:Conversation) SET c.context = 'edited' RETURN c"

\* the cypher_query arguments tried: a statement that reads and one that
\* updates in place
CypherStatements == {ReadStatement, SetStatement}

\* node n after SET c.context = 'edited' on the Conversation nodes
Edited(n) == IF n.label = "Conversation" THEN [n EXCEPT !.props.context = "edited"] ELSE n

\* GraphDatabase.query of a caller's statement: its rows, or [] on any
\* exception (the transaction of a failed statement changes nothing)
run_statement(w, cypher_query, ok) ==
    LET after == IF ok /\ cypher_query = SetStatement THEN {Edited(n) : n \in w.nodes}
                 ELSE w.nodes
        rows == IF ~ok THEN {}
                ELSE IF cypher_query = SetStatement THEN {n \in after : n.label = "Conversation"}
                ELSE after
    IN  [w EXCEPT !.nodes = after,
                  !.trace = Append(@, [fn |-> "graph_query", kind |-> "statement",
                                       ok |-> ok, ret |-> rows])]

\* the body of query_knowledge_graph after the initialization guard
query_knowledge_graph(w, cypher_query, ok) ==
    LET w1 == run_statement(w, cypher_query, ok)
    IN  [w |-> w1, ret |-> LastRet(w1), raised |-> FALSE]

QueryKnowledgeGraph(FC, F) ==
    \E cypher_query \in CypherStatements, c \in ConnectChoices(FC) :
    \E ok \in Only(InitResult(c[1], c[2]), F, TRUE) :
        LET args == [op |-> "query_knowledge_graph", cypher_query |-> cypher_query]
            w0 == World(c[1], c[2])
            r == query_knowledge_graph(w0, cypher_query, ok)
        IN  /\ initialized' = InitResult(c[1], c[2])
            /\ IF InitResult(c[1], c[2])
               THEN Finish(r.w, args @@ [ret |-> r.ret, raised |-> r.raised])
               ELSE Finish(w0, args @@ [ret |-> {}, raised |-> FALSE])

(***************************************************************************)
(* MemoryManager.categorize_memories                                       *)
(***************************************************************************)
\* "limit=10" (memory.py:222)
CategorizeLimit == 10

EmptyCategories == [facts |-> <<>>, conversations |-> <<>>]

\* the loop of memory.py:230-235 from memory i on: a memory whose type is
\* neither "fact" nor "conversation" goes into no bucket
RECURSIVE Categorize(_, _, _)
Categorize(memories, i, categorized) ==
    IF i > Len(memories) THEN categorized
    ELSE LET memory == memories[i]
             memory_type == Get(memory.metadata, "type")
         IN  Categorize(memories, i + 1,
                 IF memory_type = "fact"
                 THEN [categorized EXCEPT !.facts = Append(@, memory)]
                 ELSE IF memory_type = "conversation"
                 THEN [categorized EXCEPT !.conversations = Append(@, memory)]
                 ELSE categorized)

\* the body of categorize_memories after the initialization guard; what
\* retrieve_relevant_memories raises passes through
categorize_memories(w, query_text, answer, qOk, gOk) ==
    LET r == retrieve_relevant_memories(w, query_text, CategorizeLimit, answer, qOk, gOk)
    IN  [w |-> r.w, memories |-> r.ret, raised |-> r.raised,
         ret |-> IF r.raised THEN EmptyCategories ELSE Categorize(r.ret, 1, EmptyCategories)]

CategorizeMemories(FC, F) ==
    \E query_text \in Queries, c \in ConnectChoices(FC) :
    \E qOk \in Only(InitResult(c[1], c[2]), F, TRUE) :
    \E answer \in Only(InitResult(c[1], c[2]) /\ qOk, QueryAnswers(vdocs, CategorizeLimit), <<>>) :
    \E gOk \in [1 .. Len(answer) -> F] :
        LET args == [op |-> "categorize_memories", query |-> query_text]
            w0 == World(c[1], c[2])
            r == categorize_memories(w0, query_text, answer, qOk, gOk)
        IN  /\ initialized' = InitResult(c[1], c[2])
            /\ IF InitResult(c[1], c[2])
               THEN Finish(r.w, args @@ [ret |-> r.ret, raised |-> r.raised,
                                         memories |-> r.memories])
               ELSE Finish(w0, args @@ [ret |-> EmptyCategories, raised |-> FALSE,
                                        memories |-> <<>>])

(***************************************************************************)
(* MemoryRetrieval: the additional retrieval methods, which MemoryManager  *)
(* exposes under the same names (memory.py:314-375).                       *)
(***************************************************************************)
\* "limit: int = 10", the default of every retrieval method
DefaultLimit == 10

\* "days: int = 7"
DefaultDays == 7

\* the parameters VectorDatabase.query declares
QueryKeywords == {"query_text", "n_results", "filter_metadata"}

\* the keyword arguments the retrieval methods pass to VectorDatabase.query
RetrievalKeywords == {"query", "where", "n_results"}

\* a Python call with keyword arguments kw raises TypeError when one of them
\* is not a parameter of the method called
RaisesTypeError(kw, declared) == ~(kw \subseteq declared)

\* GraphDatabase.query of a read query whose rows the database gives as
\* rows: the rows, or [] on any exception
graph_rows(w, kind, rows, ok) ==
    [w EXCEPT !.trace = Append(@, [fn |-> "graph_query", kind |-> kind, ok |-> ok,
                                   ret |-> IF ok THEN rows ELSE {}])]

\* VectorDatabase.query with filter_metadata: the formatted hits among the
\* documents the filter keeps, or [] on any exception
query_where(w, query_text, n_results, answer, ok) ==
    query(w, query_text, n_results, answer, ok)

\* the vector query of a retrieval method: TypeError at the call for the
\* undeclared keywords, before the adapter's own try is entered
retrieval_query(w, query_text, n_results, answer, ok) ==
    IF RaisesTypeError(RetrievalKeywords, QueryKeywords)
    THEN [w |-> [w EXCEPT !.trace = Append(@, [fn |-> "query", query_text |-> query_text,
                                               n_results |-> n_results, ok |-> TRUE,
                                               raised |-> TRUE, ret |-> <<>>])],
          ret |-> <<>>, raised |-> TRUE]
    ELSE LET w1 == query_where(w, query_text, n_results, answer, ok)
         IN  [w |-> w1, ret |-> LastRet(w1), raised |-> FALSE]

\* the answers a filtered vector query can give
FilteredAnswers(docs, n) ==
    IF RaisesTypeError(RetrievalKeywords, QueryKeywords) THEN {<<>>} ELSE QueryAnswers(docs, n)

EntityTypes == {"Fact", "Person"}

EntityNames == {"Ann", "Bob"}

RelationshipTypes == {NoneStr, "MENTIONS"}

\* MATCH (e:entity_type) RETURN e
NodesOfType(w, entity_type) == {n \in w.nodes : n.label = entity_type}

\* what LIMIT limit leaves of rows S: any Min(limit, |S|) of them
LimitChoices(S, limit) == {T \in SUBSET S : Cardinality(T) = Min(limit, Cardinality(S))}

\* mutant of retrieve_by_entity_type: the query deletes the rows it returns
retrieve_by_entity_typeConsuming(w, entity_type, limit, rows, ok) ==
    LET w1 == graph_rows(w, "by_type", rows, ok)
    IN  [w |-> [w1 EXCEPT !.nodes = @ \ LastRet(w1)], ret |-> LastRet(w1), raised |-> FALSE]

\* the body of retrieve_by_entity_type after the initialization guard
retrieve_by_entity_type(w, entity_type, limit, rows, ok) ==
    LET w1 == graph_rows(w, "by_type", rows, ok)
    IN  [w |-> w1, ret |-> LastRet(w1), raised |-> FALSE]

RetrieveByEntityType(FC, F) ==
    \E entity_type \in EntityTypes, limit \in {1, DefaultLimit}, c \in ConnectChoices(FC) :
    \E ok \in Only(InitResult(c[1], c[2]), F, TRUE) :
    \E rows \in LimitChoices(NodesOfType(Stores, entity_type), limit) :
        LET args == [op |-> "retrieve_by_entity_type", entity_type |-> entity_type,
                     limit |-> limit]
            w0 == World(c[1], c[2])
            r == retrieve_by_entity_type(w0, entity_type, limit, rows, ok)
        IN  /\ initialized' = InitResult(c[1], c[2])
            /\ IF InitResult(c[1], c[2])
               THEN Finish(r.w, args @@ [ret |-> r.ret, raised |-> r.raised])
               ELSE Finish(w0, args @@ [ret |-> {}, raised |-> FALSE])

\* MATCH (e)-[r]-(connected) WHERE e.name = name RETURN e, r, connected,
\* with [r:relationship_type] when a type is given; the pattern is undirected
RelationshipsOf(w, entity_name, relationship_type) ==
    {row \in [e : w.nodes, r : w.rels, connected : w.nodes] :
        /\ Get(row.e.props, "name") = entity_name
        /\ TruthyStr(relationship_type) => row.r.type = relationship_type
        /\ \/ row.r.start = row.e.id /\ row.r.end = row.connected.id
           \/ row.r.end = row.e.id /\ row.r.start = row.connected.id}

\* the body of retrieve_entity_relationships after the initialization guard
retrieve_entity_relationships(w, entity_name, relationship_type, ok) ==
    LET w1 == graph_rows(w, "relationships",
                         RelationshipsOf(w, entity_name, relationship_type), ok)
    IN  [w |-> w1, ret |-> LastRet(w1), raised |-> FALSE]

RetrieveEntityRelationships(FC, F) ==
    \E entity_name \in EntityNames, relationship_type \in RelationshipTypes,
       c \in ConnectChoices(FC) :
    \E ok \in Only(InitResult(c[1], c[2]), F, TRUE) :
        LET args == [op |-> "retrieve_entity_relationships", entity_name |-> entity_name,
                     relationship_type |-> relationship_type]
            w0 == World(c[1], c[2])
            r == retrieve_entity_relationships(w0, entity_name, relationship_type, ok)
        IN  /\ initialized' = InitResult(c[1], c[2])
            /\ IF InitResult(c[1], c[2])
               THEN Finish(r.w, args @@ [ret |-> r.ret, raised |-> r.raised])
               ELSE Finish(w0, args @@ [ret |-> {}, raised |-> FALSE])

\* the documents a where clause on type keeps (every one for no type)
OfType(docs, memory_type) ==
    {d \in docs : TruthyStr(memory_type) => Get(d.metadata, "type") = memory_type}

\* the node whose id the vector id of document d ends with
NodeOfDocument(d) ==
    CHOOSE k \in IntRange : d.id \in {VectorIdOf("fact_", k), VectorIdOf("conversation_", k)}

\* the documents the clause {"timestamp": {"$gt": threshold}} can keep.  The
\* model holds no clock: a document's timestamp is the time of its write, and
\* node ids grow with time, so the documents newer than a threshold are those
\* of the nodes from some id on
NewerChoices(docs) == {{d \in docs : NodeOfDocument(d) >= k} : k \in IntRange}

\* the body of retrieve_recent_memories after the initialization guard; the
\* where clause of memory_type and days has chosen the documents answer is
\* drawn from
retrieve_recent_memories(w, memory_type, days, limit, answer, ok) ==
    retrieval_query(w, "", limit, answer, ok)

RetrieveRecentMemories(FC, F) ==
    \E memory_type \in {NoneStr, "fact"}, days \in {DefaultDays}, limit \in {DefaultLimit},
       c \in ConnectChoices(FC) :
    \E ok \in Only(InitResult(c[1], c[2]) /\ ~RaisesTypeError(RetrievalKeywords, QueryKeywords),
                   F, TRUE) :
    \E newer \in NewerChoices(vdocs) :
    \E answer \in FilteredAnswers(OfType(newer, memory_type), limit) :
        LET args == [op |-> "retrieve_recent_memories", memory_type |-> memory_type,
                     days |-> days, limit |-> limit, newer |-> newer]
            w0 == World(c[1], c[2])
            r == retrieve_recent_memories(w0, memory_type, days, limit, answer, ok)
        IN  /\ initialized' = InitResult(c[1], c[2])
            /\ IF InitResult(c[1], c[2])
               THEN Finish(r.w, args @@ [ret |-> r.ret, raised |-> r.raised])
               ELSE Finish(w0, args @@ [ret |-> <<>>, raised |-> FALSE])

\* the body of retrieve_memories_by_source after the initialization guard
retrieve_memories_by_source(w, source, limit, answer, ok) ==
    retrieval_query(w, "", limit, answer, ok)

RetrieveMemoriesBySource(FC, F) ==
    \E source \in {"test", "agent_workflow"}, limit \in {DefaultLimit},
       c \in ConnectChoices(FC) :
    \E ok \in Only(InitResult(c[1], c[2]) /\ ~RaisesTypeError(RetrievalKeywords, QueryKeywords),
                   F, TRUE) :
    \E answer \in FilteredAnswers({d \in vdocs : Matches(d.metadata, [source |-> source])},
                                  limit) :
        LET args == [op |-> "retrieve_memories_by_source", source |-> source, limit |-> limit]
            w0 == World(c[1], c[2])
            r == retrieve_memories_by_source(w0, source, limit, answer, ok)
        IN  /\ initialized' = InitResult(c[1], c[2])
            /\ IF InitResult(c[1], c[2])
               THEN Finish(r.w, args @@ [ret |-> r.ret, raised |-> r.raised])
               ELSE Finish(w0, args @@ [ret |-> <<>>, raised |-> FALSE])

\* the fact_id arguments tried: a node id as store_fact returns it, and as
\* the numeral the vector metadata holds
FactIds == {[str |-> FALSE, v |-> 0], [str |-> FALSE, v |-> 1], [str |-> TRUE, v |-> Str(1)]}

\* "int(fact_id) if isinstance(fact_id, str) else fact_id"
FactIdValue(fact_id) == IF fact_id.str THEN ParseInt(fact_id.v) ELSE fact_id.v

\* MATCH (f:Fact) WHERE id(f) = id RETURN f
FactById(w, id) == {n \in w.nodes : n.label = "Fact" /\ n.id = id}

\* mutant of NoFactNode: the test forgotten
NoFactNodeNever(fact_node) == FALSE

\* "if not fact_node" (memory_retrieval.py:143)
NoFactNode(fact_node) == fact_node = {}

\* the body of retrieve_related_facts after the initialization guard;
\* fact_node[0] raises IndexError on an empty list, and [1:] drops the
\* first hit whatever it is
retrieve_related_facts(w, fact_id, limit, answer, gOk, ok) ==
    LET w1 == graph_rows(w, "fact_by_id", FactById(w, FactIdValue(fact_id)), gOk)
        fact_node == LastRet(w1)
    IN  IF NoFactNode(fact_node) THEN [w |-> w1, ret |-> <<>>, raised |-> FALSE]
        ELSE IF fact_node = {} THEN [w |-> w1, ret |-> <<>>, raised |-> TRUE]
        ELSE LET fact_content == Get((CHOOSE f \in fact_node : TRUE).props, "content")
                 r == retrieval_query(w1, fact_content, limit + 1, answer, ok)
             IN  [w |-> r.w, raised |-> r.raised,
                  ret |-> IF r.raised \/ r.ret = <<>> THEN <<>> ELSE Tail(r.ret)]

RetrieveRelatedFacts(FC, F) ==
    \E fact_id \in FactIds, limit \in Limits, c \in ConnectChoices(FC) :
    \E gOk \in Only(InitResult(c[1], c[2]), F, TRUE) :
    \E ok \in Only(/\ InitResult(c[1], c[2]) /\ gOk
                   /\ FactById(Stores, FactIdValue(fact_id)) # {}
                   /\ ~RaisesTypeError(RetrievalKeywords, QueryKeywords), F, TRUE) :
    \E answer \in FilteredAnswers(OfType(vdocs, "fact"), limit + 1) :
        LET args == [op |-> "retrieve_related_facts", fact_id |-> fact_id, limit |-> limit]
            w0 == World(c[1], c[2])
            r == retrieve_related_facts(w0, fact_id, limit, answer, gOk, ok)
        IN  /\ initialized' = InitResult(c[1], c[2])
            /\ IF InitResult(c[1], c[2])
               THEN Finish(r.w, args @@ [ret |-> r.ret, raised |-> r.raised])
               ELSE Finish(w0, args @@ [ret |-> <<>>, raised |-> FALSE])

(***************************************************************************)
(* MemoryManager.get_entity_information                                    *)
(***************************************************************************)
\* None where a node is expected
NoNode == [id |-> None]

NoEntityInformation == [entity |-> NoNode, related_facts |-> {}]

\* MATCH (e) WHERE e.name = name RETURN e
NodesNamed(w, entity_name) == {n \in w.nodes : Get(n.props, "name") = entity_name}

\* mutant of FactsMentioning: the relationship followed from the entity to
\* the fact
FactsMentionedBy(w, entity_name) ==
    {f \in w.nodes :
        /\ f.label = "Fact"
        /\ \E e \in NodesNamed(w, entity_name) :
              [start |-> e.id, end |-> f.id, type |-> "MENTIONS"] \in w.rels}

\* MATCH (f:Fact)-[:MENTIONS]->(e) WHERE e.name = name RETURN f
FactsMentioning(w, entity_name) ==
    {f \in w.nodes :
        /\ f.label = "Fact"
        /\ \E e \in NodesNamed(w, entity_name) :
              [start |-> f.id, end |-> e.id, type |-> "MENTIONS"] \in w.rels}

\* the body of get_entity_information after the initialization guard; first
\* is the row the database gives first (entity_result[0])
get_entity_information(w, entity_name, first, eOk, fOk) ==
    LET w1 == graph_rows(w, "entity", NodesNamed(w, entity_name), eOk)
        entity_result == LastRet(w1)
    IN  IF entity_result = {} THEN [w |-> w1, ret |-> NoEntityInformation, raised |-> FALSE]
        ELSE LET w2 == graph_rows(w1, "facts_of", FactsMentioning(w1, entity_name), fOk)
             IN  [w |-> w2, ret |-> [entity |-> first, related_facts |-> LastRet(w2)],
                  raised |-> FALSE]

GetEntityInformation(FC, F) ==
    \E entity_name \in EntityNames, c \in ConnectChoices(FC) :
    \E eOk \in Only(InitResult(c[1], c[2]), F, TRUE) :
    \E first \in Only(InitResult(c[1], c[2]) /\ eOk /\ NodesNamed(Stores, entity_name) # {},
                      NodesNamed(Stores, entity_name), NoNode) :
    \E fOk \in Only(first # NoNode, F, TRUE) :
        LET args == [op |-> "get_entity_information", entity_name |-> entity_name]
            w0 == World(c[1], c[2])
            r == get_entity_information(w0, entity_name, first, eOk, fOk)
        IN  /\ initialized' = InitResult(c[1], c[2])
            /\ IF InitResult(c[1], c[2])
               THEN Finish(r.w, args @@ [ret |-> r.ret, raised |-> r.raised])
               ELSE Finish(w0, args @@ [ret |-> NoEntityInformation, raised |-> FALSE])

(***************************************************************************)
(* knowledge_agent (agents/knowledge_agent.py): one invocation of the      *)
(* workflow node.  The two llm.invoke calls are the environment: each      *)
(* response is given by what json.loads makes of its content.  Texts that  *)
(* the agent compares are sequences of characters.                         *)
(***************************************************************************)
\* the characters str.lower() changes, among those the texts below use
LowerTable == [A |-> "a", B |-> "b"]

LowerChar(c) == IF c \in DOMAIN LowerTable THEN LowerTable[c] ELSE c

\* mutant of Lower: the text as it is
LowerNothing(s) == s

\* s.lower()
Lower(s) == [i \in DOMAIN s |-> LowerChar(s[i])]

\* "sub in s" on strings: sub occurs in s as a contiguous run
Contains(sub, s) ==
    \E i \in 0 .. (Len(s) - Len(sub)) : SubSeq(s, i + 1, i + Len(sub)) = sub

\* the Python string of a sequence of characters
RECURSIVE Text(_)
Text(s) == IF s = <<>> THEN "" ELSE Head(s) \o Text(Tail(s))

\* json.loads raises ValueError on a content that is not JSON
NotJson == [json |-> FALSE]

\* a JSON value that is not an array and cannot be iterated: a number
JsonNumber == [json |-> TRUE, array |-> FALSE]

JsonArray(items) == [json |-> TRUE, array |-> TRUE, items |-> items]

\* a JSON object with these fields
Obj(fields) == [obj |-> TRUE, fields |-> fields]

\* an array item that is no object: a JSON string
JsonString == [obj |-> FALSE]

AnnName == <<"A", "n", "n">>

BobName == <<"B", "o", "b">>

AnnFact == <<"a", "n", "n", " ", "o", "k">>

\* the contents the entity extraction can come back with
EntityResponses ==
    {NotJson, JsonNumber, JsonArray(<<JsonString>>),
     JsonArray(<<Obj([type |-> "Person"])>>),
     JsonArray(<<Obj([name |-> AnnName, type |-> "Person"])>>),
     JsonArray(<<Obj([name |-> BobName, type |-> "Person"])>>)}

\* the contents the fact extraction can come back with
FactResponses ==
    {NotJson, JsonNumber, JsonArray(<<JsonString>>),
     JsonArray(<<Obj([content |-> AnnFact])>>),
     JsonArray(<<Obj([content |-> AnnFact]), JsonString>>)}

\* the workflow state tried: one human message, no context
AgentMessages == <<[kind |-> "human", content |-> "who is Ann"]>>

AgentContexts == {""}

\* "limit: int = 5", the default of retrieve_relevant_memories
RelevantLimit == 5

\* MemoryManager.initialize on the manager a = [w, init]
initialize(a, gc, vc) ==
    [w |-> [a.w EXCEPT !.trace = @ \o << [fn |-> "graph_connect", ok |-> gc, ret |-> gc],
                                        [fn |-> "vector_connect", ok |-> vc, ret |-> vc] >>],
     init |-> gc /\ vc]

\* the guard "if not self.initialized and not self.initialize()": the
\* manager after it; the method goes on iff init holds then
Guard(a, gc, vc) == IF a.init THEN a ELSE initialize(a, gc, vc)

\* the role of each message by its class (knowledge_agent.py:45-50)
FormattedMessages(messages) ==
    [i \in DOMAIN messages |->
        [role |-> IF messages[i].kind = "human" THEN "user"
                  ELSE IF messages[i].kind = "ai" THEN "assistant" ELSE "system",
         content |-> messages[i].content]]

AllOk(n) == [i \in 1 .. n |-> TRUE]

\* knowledge_agent.py:74-80: the parsed entities, [] on any exception
ParsedEntities(response) == IF response.json THEN response ELSE JsonArray(<<>>)

\* the inner loop of knowledge_agent.py:88-92 from entity i on, for a fact
\* that is an object: the related entities, or raised when an entity is no
\* object, has no name, or the fact has no content
RECURSIVE RelatedEntities(_, _, _, _)
RelatedEntities(fact, items, i, related_entities) ==
    IF i > Len(items) THEN [raised |-> FALSE, related |-> related_entities]
    ELSE IF ~items[i].obj \/ "name" \notin DOMAIN items[i].fields
                          \/ "content" \notin DOMAIN fact.fields
    THEN [raised |-> TRUE, related |-> <<>>]
    ELSE RelatedEntities(fact, items, i + 1,
             IF Contains(Lower(items[i].fields.name), Lower(fact.fields.content))
             THEN Append(related_entities, items[i])
             ELSE related_entities)

\* the entity dictionary as store_fact reads it
EntityDict(item) == [name |-> Text(item.fields.name), type |-> Get(item.fields, "type")]

\* the loop of knowledge_agent.py:87-98 from fact i on; the first exception
\* ends it (line 99), what was stored before stays
RECURSIVE StoreFacts(_, _, _, _, _, _)
StoreFacts(a, facts, entities, i, gc, vc) ==
    IF i > Len(facts) THEN a
    ELSE IF ~entities.array \/ ~facts[i].obj THEN a
    ELSE LET e == RelatedEntities(facts[i], entities.items, 1, <<>>)
             a1 == Guard(a, gc, vc)
             related == [k \in DOMAIN e.related |-> EntityDict(e.related[k])]
         IN  IF e.raised \/ "content" \notin DOMAIN facts[i].fields THEN a
             ELSE IF ~a1.init THEN StoreFacts(a1, facts, entities, i + 1, gc, vc)
             ELSE StoreFacts([w |-> store_fact(a1.w, Text(facts[i].fields.content),
                                               "conversation", related, TRUE,
                                               AllOk(Len(related)), AllOk(Len(related)),
                                               TRUE).w,
                              init |-> TRUE],
                             facts, entities, i + 1, gc, vc)

\* knowledge_agent.py:82-100: json.loads of the fact response and the loop,
\* all inside one try
ExtractedFacts(a, response, entities, gc, vc) ==
    IF ~response.json \/ ~response.array THEN a
    ELSE StoreFacts(a, response.items, entities, 1, gc, vc)

\* the loop of knowledge_agent.py:104-107 from entity i on, outside any try:
\* entity.get raises AttributeError on an item that is no object
RECURSIVE EntityInformation(_, _, _, _, _, _, _)
EntityInformation(a, items, i, pick, entity_info, gc, vc) ==
    IF i > Len(items) THEN [a |-> a, raised |-> FALSE, entity_info |-> entity_info]
    ELSE IF ~items[i].obj THEN [a |-> a, raised |-> TRUE, entity_info |-> entity_info]
    ELSE IF "name" \notin DOMAIN items[i].fields \/ items[i].fields.name = <<>>
    THEN EntityInformation(a, items, i + 1, pick, entity_info, gc, vc)
    ELSE LET entity_name == Text(items[i].fields.name)
             a1 == Guard(a, gc, vc)
             r == get_entity_information(a1.w, entity_name, pick[entity_name], TRUE, TRUE)
         IN  IF a1.init
             THEN EntityInformation([w |-> r.w, init |-> TRUE], items, i + 1, pick,
                                    entity_info \cup {[name |-> entity_name, info |-> r.ret]},
                                    gc, vc)
             ELSE EntityInformation(a1, items, i + 1, pick,
                                    entity_info \cup {[name |-> entity_name,
                                                       info |-> NoEntityInformation]},
                                    gc, vc)

\* the names get_entity_information can be asked for
AgentNames == {Text(AnnName), Text(BobName)}

\* the row the graph store gives first for each name
FirstRows(w) ==
    {pick \in [AgentNames -> w.nodes \cup {NoNode}] :
        \A n \in AgentNames : IF NodesNamed(w, n) = {} THEN pick[n] = NoNode
                              ELSE pick[n] \in NodesNamed(w, n)}

\* knowledge_agent.py:44-56: the conversation write on the manager a that
\* store_conversation's guard leaves, and what the invocation has retrieved
AgentConversation(a, messages, context, memory_context, categorized_memories) ==
    [a |-> IF a.init
           THEN [w |-> store_conversation(a.w, FormattedMessages(messages), context,
                                          [source |-> "agent_workflow"], TRUE,
                                          AllOk(Len(messages)), AllOk(Len(messages)), TRUE).w,
                 init |-> TRUE]
           ELSE a,
     raised |-> FALSE, memory_context |-> memory_context,
     categorized_memories |-> categorized_memories]

\* knowledge_agent.py:42: c is what categorize_memories gives on the manager
\* a that its guard leaves; what it raises ends the invocation
AgentCategorized(a, c, messages, context, memory_context, gc, vc) ==
    IF a.init /\ c.raised
    THEN [a |-> [w |-> c.w, init |-> TRUE], raised |-> TRUE,
          memory_context |-> <<>>, categorized_memories |-> EmptyCategories]
    ELSE AgentConversation(Guard(IF a.init THEN [w |-> c.w, init |-> TRUE] ELSE a, gc, vc),
                           messages, context, memory_context,
                           IF a.init THEN c.ret ELSE EmptyCategories)

\* knowledge_agent.py:39: r is what retrieve_relevant_memories gives on the
\* manager a that its guard leaves; what it raises ends the invocation
AgentRetrieved(a, r, messages, context, answer10, gc, vc) ==
    IF a.init /\ r.raised
    THEN [a |-> [w |-> r.w, init |-> TRUE], raised |-> TRUE,
          memory_context |-> <<>>, categorized_memories |-> EmptyCategories]
    ELSE AgentCategorized(Guard(IF a.init THEN [w |-> r.w, init |-> TRUE] ELSE a, gc, vc),
                          categorize_memories(IF a.init THEN r.w ELSE a.w,
                                              messages[Len(messages)].content, answer10,
                                              TRUE, AllOk(Len(answer10))),
                          messages, context, IF a.init THEN r.ret ELSE <<>>, gc, vc)

\* what the two retrievals r and c give, with nothing stored after them
AgentCategorizedOnly(r, c) ==
    [a |-> [w |-> c.w, init |-> TRUE], raised |-> r.raised \/ c.raised,
     memory_context |-> r.ret, categorized_memories |-> c.ret]

\* categorize_memories after the retrieval r, with nothing stored after it
AgentRetrievedOnly(r, query_text, answer10) ==
    AgentCategorizedOnly(r, categorize_memories(r.w, query_text, answer10, TRUE,
                                                AllOk(Len(answer10))))

\* mutant of AgentRetrieveAndStore: the conversation is stored first and
\* the two retrievals follow
AgentStoreAndRetrieve(a0, messages, context, answer, answer10, gc, vc) ==
    IF ~Guard(a0, gc, vc).init
    THEN [a |-> Guard(a0, gc, vc), raised |-> FALSE, memory_context |-> <<>>,
          categorized_memories |-> EmptyCategories]
    ELSE AgentRetrievedOnly(
             retrieve_relevant_memories(
                 AgentConversation(Guard(a0, gc, vc), messages, context, <<>>,
                                   EmptyCategories).a.w,
                 messages[Len(messages)].content, RelevantLimit, answer, TRUE,
                 AllOk(Len(answer))),
             messages[Len(messages)].content, answer10)

\* knowledge_agent.py:30-56: initialization, the two retrievals and the
\* conversation write; raised when a retrieval raises
AgentRetrieveAndStore(a0, messages, context, answer, answer10, gc, vc) ==
    AgentRetrieved(Guard(Guard(a0, gc, vc), gc, vc),
                   retrieve_relevant_memories(Guard(Guard(a0, gc, vc), gc, vc).w,
                                              messages[Len(messages)].content,
                                              RelevantLimit, answer, TRUE, AllOk(Len(answer))),
                   messages, context, answer10, gc, vc)

\* knowledge_agent.py:102-115 on the manager a6 that the fact loop leaves
AgentEntityInformation(a6, entities, pick, gc, vc) ==
    IF entities.array
    THEN EntityInformation(a6, entities.items, 1, pick, {}, gc, vc)
    ELSE [a |-> a6, raised |-> TRUE, entity_info |-> {}]

KnowledgeAgent(FC) ==
    \E messages \in {AgentMessages}, context \in AgentContexts, c \in ConnectChoices(FC) :
    /\ InitResult(c[1], c[2]) => nextId + 1 + Len(messages) <= MaxNodes
    /\ \E answer \in Only(InitResult(c[1], c[2]), QueryAnswers(vdocs, RelevantLimit), <<>>),
          answer10 \in Only(InitResult(c[1], c[2]), QueryAnswers(vdocs, CategorizeLimit), <<>>) :
       \E r1 \in {AgentRetrieveAndStore([w |-> Stores, init |-> initialized], messages,
                                        context, answer, answer10, c[1], c[2])} :
       \E entity_response \in EntityResponses, fact_response \in FactResponses :
       \E a6 \in {ExtractedFacts(r1.a, fact_response, ParsedEntities(entity_response),
                                 c[1], c[2])} :
       \E pick \in FirstRows(a6.w) :
       \E r2 \in {AgentEntityInformation(a6, ParsedEntities(entity_response), pick,
                                         c[1], c[2])} :
       \E end \in {IF r1.raised THEN r1.a ELSE r2.a} :
          /\ end.w.nextId <= MaxNodes
          /\ initialized' = end.init
          /\ Finish(end.w,
                    [op |-> "knowledge_agent", messages |-> messages, context |-> context,
                     entity_response |-> entity_response, fact_response |-> fact_response,
                     raised |-> r1.raised \/ r2.raised,
                     ret |-> [memory_context |-> r1.memory_context,
                              categorized_memories |-> r1.categorized_memories,
                              entity_information |-> r2.entity_info,
                              messages |-> messages]])

(***************************************************************************)
(* Callers that share one MemoryManager and whose calls interleave.  The   *)
(* manager has no lock (memory.py holds none), so between two store calls  *)
(* of one caller's call any store call of the other caller can happen.     *)
(* One step is one store call of one caller, with the statements of the    *)
(* method that follow it up to the next store call; the two connects of    *)
(* the lazy initialization are taken with the start of the call.  No store *)
(* call fails.                                                             *)
(***************************************************************************)
\* the calls a caller can start
CallerCalls ==
    {[op |-> "store_fact", fact |-> fact, source |-> NoneStr, related_entities |-> e] :
        fact \in Facts, e \in EntityLists}
    \cup {[op |-> "store_conversation", messages |-> m, context |-> NoneStr, metadata |-> md] :
            m \in MessageLists, md \in MetadataChoices}
    \cup {[op |-> "clear_memory", memory_type |-> t] : t \in MemoryTypes}

\* the create_node calls a call can make
NodesNeeded(args) ==
    IF args.op = "store_fact" THEN 1 + Len(args.related_entities)
    ELSE IF args.op = "store_conversation" THEN 1 + Len(args.messages)
    ELSE 0

\* the create_node calls that the running calls of the callers in S can
\* still make
RECURSIVE NodesAwaited(_)
NodesAwaited(S) ==
    IF S = {} THEN 0
    ELSE LET c == CHOOSE x \in S : TRUE
         IN  (IF callers[c].pc = "idle" THEN 0 ELSE callers[c].budget) + NodesAwaited(S \ {c})

\* the first store call of each method
FirstCall(op) ==
    IF op = "store_fact" THEN "create_fact"
    ELSE IF op = "store_conversation" THEN "create_conversation"
    ELSE "delete"

\* caller c starts a public method: the guard at its head (memory.py:56,
\* 106, 289) has run, and its local variables are fresh
BeginCall(c) ==
    /\ callers[c].pc = "idle"
    /\ \E args \in CallerCalls :
          /\ nextId + NodesAwaited(Callers) + NodesNeeded(args) <= MaxNodes
          /\ callers' = [callers EXCEPT ![c] =
                            [pc |-> FirstCall(args.op), args |-> args, id |-> None, i |-> 1,
                             last |-> None, budget |-> NodesNeeded(args), overlap |-> {}]]
    /\ initialized' = TRUE
    /\ UNCHANGED <<nodes, rels, nextId, vdocs, call>>

\* the frame of one store call of caller c: the stores become w, c goes on
\* as record next, and every other running call has seen a step of c's method
StoreCall(c, w, next) ==
    /\ nodes' = w.nodes
    /\ rels' = w.rels
    /\ nextId' = w.nextId
    /\ vdocs' = w.vdocs
    /\ callers' = [x \in Callers |->
                      IF x = c THEN next
                      ELSE IF callers[x].pc = "idle" THEN callers[x]
                      ELSE [callers[x] EXCEPT !.overlap = @ \cup {callers[c].args.op}]]
    /\ UNCHANGED initialized

\* the frame of the last store call of caller c's call, which returns ret
ReturnCall(c, w, ret) ==
    /\ StoreCall(c, w, Idle)
    /\ call' = callers[c].args @@ [ret |-> ret, overlap |-> callers[c].overlap, trace |-> <<>>]

\* memory.py:66-69
CreateFactNode(c) ==
    /\ callers[c].pc = "create_fact"
    /\ LET args == callers[c].args
           w1 == create_node(Stores, "Fact",
                             [content |-> args.fact, source |-> SourceOrAgent(args.source)], TRUE)
       IN  StoreCall(c, w1, [callers[c] EXCEPT
                                !.id = LastRet(w1),
                                !.budget = @ - 1,
                                !.pc = IF EntityLoopGuard(args.related_entities, LastRet(w1))
                                       THEN "create_entity" ELSE "add_fact"])
    /\ UNCHANGED call

\* where the loop over n items goes after item i
AfterItem(i, n, again, done) == IF i < n THEN again ELSE done

\* memory.py:70-75
CreateEntityNode(c) ==
    /\ callers[c].pc = "create_entity"
    /\ LET me == callers[c]
           entity == me.args.related_entities[me.i]
           w1 == create_node(Stores, EntityLabel(entity),
                             [name |-> entity.name, properties |-> "{}"], TRUE)
       IN  StoreCall(c, w1,
                     IF Truthy(LastRet(w1))
                     THEN [me EXCEPT !.last = LastRet(w1), !.budget = @ - 1, !.pc = "create_mentions"]
                     ELSE [me EXCEPT !.last = LastRet(w1), !.budget = @ - 1, !.i = @ + 1,
                                     !.pc = AfterItem(me.i, Len(me.args.related_entities),
                                                      "create_entity", "add_fact")])
    /\ UNCHANGED call

\* memory.py:76-78
CreateMentions(c) ==
    /\ callers[c].pc = "create_mentions"
    /\ LET me == callers[c]
           w1 == create_relationship(Stores, me.id, me.last, "MENTIONS", TRUE)
       IN  StoreCall(c, w1, [me EXCEPT !.i = @ + 1,
                                       !.pc = AfterItem(me.i, Len(me.args.related_entities),
                                                        "create_entity", "add_fact")])
    /\ UNCHANGED call

\* memory.py:81-92
AddFactDocument(c) ==
    /\ callers[c].pc = "add_fact"
    /\ LET me == callers[c]
           w1 == add_documents(Stores, me.args.fact,
                               [type |-> "fact", source |-> SourceOrAgent(me.args.source),
                                graph_id |-> GraphIdOf(me.id)],
                               VectorIdOf("fact_", me.id), TRUE)
       IN  ReturnCall(c, w1, StoreFactReturn(me.id))

\* memory.py:117
CreateConversationNode(c) ==
    /\ callers[c].pc = "create_conversation"
    /\ LET args == callers[c].args
           w1 == create_node(Stores, "Conversation",
                             Merge([context |-> ContextOrEmpty(args.context)], args.metadata), TRUE)
       IN  StoreCall(c, w1, [callers[c] EXCEPT
                                !.id = LastRet(w1),
                                !.budget = @ - 1,
                                !.pc = IF Len(args.messages) > 0
                                       THEN "create_message" ELSE "add_conversation"])
    /\ UNCHANGED call

\* memory.py:120-130
CreateMessageNode(c) ==
    /\ callers[c].pc = "create_message"
    /\ LET me == callers[c]
           message == me.args.messages[me.i]
           w1 == create_node(Stores, "Message",
                             [role |-> MessageGet(message, "role", "unknown"),
                              content |-> MessageGet(message, "content", ""),
                              order |-> me.i - 1], TRUE)
       IN  StoreCall(c, w1,
                     IF Truthy(LastRet(w1)) /\ Truthy(me.id)
                     THEN [me EXCEPT !.last = LastRet(w1), !.budget = @ - 1, !.pc = "create_contains"]
                     ELSE [me EXCEPT !.last = LastRet(w1), !.budget = @ - 1, !.i = @ + 1,
                                     !.pc = AfterItem(me.i, Len(me.args.messages),
                                                      "create_message", "add_conversation")])
    /\ UNCHANGED call

\* memory.py:131-133
CreateContains(c) ==
    /\ callers[c].pc = "create_contains"
    /\ LET me == callers[c]
           w1 == create_relationship(Stores, me.id, me.last, "CONTAINS", TRUE)
       IN  StoreCall(c, w1, [me EXCEPT !.i = @ + 1,
                                       !.pc = AfterItem(me.i, Len(me.args.messages),
                                                        "create_message", "add_conversation")])
    /\ UNCHANGED call

\* memory.py:137-151
AddConversationDocument(c) ==
    /\ callers[c].pc = "add_conversation"
    /\ LET me == callers[c]
           w1 == add_documents(Stores, ConversationText(me.args.messages, 1),
                               ConversationMetadata(me.args.context, me.id, me.args.metadata),
                               VectorIdOf("conversation_", me.id), TRUE)
       IN  ReturnCall(c, w1, StoreConversationReturn(me.id))

\* memory.py:292-312, one store call at a time: the vector deletion, which
\* raises TypeError for the keyword where (the call returns False), and
\* after a deletion that did not raise the graph deletion
ClearMemoryCall(c) ==
    /\ callers[c].pc \in {"delete", "graph_delete"}
    /\ LET me == callers[c]
           memory_type == me.args.memory_type
       IN  IF me.pc = "delete" /\ "where" \notin DeleteKeywords
           THEN ReturnCall(c, Stores, FALSE)
           ELSE IF me.pc = "delete"
           THEN /\ StoreCall(c, delete(Stores, {},
                                       IF TruthyStr(memory_type) THEN [type |-> memory_type]
                                       ELSE EmptyDict, TRUE),
                             [me EXCEPT !.pc = "graph_delete"])
                /\ UNCHANGED call
           ELSE ReturnCall(c, detach_delete(Stores, LabelOfType(memory_type), TRUE), TRUE)

Init ==
    /\ nodes = {}
    /\ rels = {}
    /\ nextId = 0
    /\ vdocs = {}
    /\ initialized = FALSE
    /\ call = [op |-> "init", trace |-> <<>>]
    /\ callers = [c \in Callers |-> Idle]

\* the write operations, every store call of which may fail
Next ==
    \/ StoreFact(BOOLEAN, BOOLEAN)
    \/ StoreConversation(BOOLEAN, BOOLEAN)
    \/ ClearMemory(BOOLEAN, BOOLEAN)

Spec == Init /\ [][Next]_vars

\* every operation, no store call failing
NextOK ==
    \/ StoreFact({TRUE}, {TRUE})
    \/ StoreConversation({TRUE}, {TRUE})
    \/ ClearMemory({TRUE}, {TRUE})
    \/ RetrieveRelevantMemories({TRUE}, {TRUE})
    \/ CategorizeMemories({TRUE}, {TRUE})
    \/ RetrieveByEntityType({TRUE}, {TRUE})
    \/ RetrieveEntityRelationships({TRUE}, {TRUE})
    \/ RetrieveRecentMemories({TRUE}, {TRUE})
    \/ RetrieveMemoriesBySource({TRUE}, {TRUE})
    \/ RetrieveRelatedFacts({TRUE}, {TRUE})
    \/ GetEntityInformation({TRUE}, {TRUE})

SpecOK == Init /\ [][NextOK]_vars

\* the read operations, every store call of which may fail, over the
\* stores that writes fill whose store calls do not fail once the lazy
\* initialization has connected (the connection itself may fail)
NextRead ==
    \/ StoreFact(BOOLEAN, {TRUE})
    \/ StoreConversation(BOOLEAN, {TRUE})
    \/ ClearMemory(BOOLEAN, {TRUE})
    \/ RetrieveRelevantMemories(BOOLEAN, BOOLEAN)
    \/ CategorizeMemories(BOOLEAN, {TRUE})
    \/ RetrieveByEntityType(BOOLEAN, BOOLEAN)
    \/ RetrieveEntityRelationships(BOOLEAN, BOOLEAN)
    \/ RetrieveRecentMemories(BOOLEAN, BOOLEAN)
    \/ RetrieveMemoriesBySource(BOOLEAN, BOOLEAN)
    \/ RetrieveRelatedFacts(BOOLEAN, BOOLEAN)
    \/ GetEntityInformation(BOOLEAN, BOOLEAN)

SpecRead == Init /\ [][NextRead]_vars

\* every public operation of the manager, query_knowledge_graph included;
\* a connection may fail, and so may the store call of a caller's statement
NextAll ==
    \/ StoreFact(BOOLEAN, {TRUE})
    \/ StoreConversation(BOOLEAN, {TRUE})
    \/ ClearMemory(BOOLEAN, {TRUE})
    \/ RetrieveRelevantMemories(BOOLEAN, {TRUE})
    \/ QueryKnowledgeGraph(BOOLEAN, BOOLEAN)
    \/ CategorizeMemories(BOOLEAN, {TRUE})
    \/ RetrieveByEntityType(BOOLEAN, {TRUE})
    \/ RetrieveEntityRelationships(BOOLEAN, {TRUE})
    \/ RetrieveRecentMemories(BOOLEAN, {TRUE})
    \/ RetrieveMemoriesBySource(BOOLEAN, {TRUE})
    \/ RetrieveRelatedFacts(BOOLEAN, {TRUE})
    \/ GetEntityInformation(BOOLEAN, {TRUE})

SpecAll == Init /\ [][NextAll]_vars

\* the write operations, and get_entity_information; a connection may
\* fail, and so may every store call of store_fact, while the two graph
\* queries of get_entity_information are answered once the manager is
\* connected
NextEntity ==
    \/ StoreFact(BOOLEAN, BOOLEAN)
    \/ StoreConversation(BOOLEAN, {TRUE})
    \/ ClearMemory(BOOLEAN, BOOLEAN)
    \/ GetEntityInformation(BOOLEAN, {TRUE})

SpecEntity == Init /\ [][NextEntity]_vars

\* invocations of the workflow node over a manager that also stores facts
\* directly; the connection may fail, the store calls do not
NextAgent ==
    \/ KnowledgeAgent(BOOLEAN)
    \/ StoreFact({TRUE}, {TRUE})

SpecAgent == Init /\ [][NextAgent]_vars

\* two callers whose store_fact, store_conversation and clear_memory calls
\* interleave store call by store call; no store call fails
NextCallers ==
    \E c \in Callers :
        \/ BeginCall(c)
        \/ CreateFactNode(c)
        \/ CreateEntityNode(c)
        \/ CreateMentions(c)
        \/ AddFactDocument(c)
        \/ CreateConversationNode(c)
        \/ CreateMessageNode(c)
        \/ CreateContains(c)
        \/ AddConversationDocument(c)
        \/ ClearMemoryCall(c)

SpecCallers == Init /\ [][NextCallers]_vars

(***************************************************************************)
(* Properties.                                                             *)
(***************************************************************************)
\* the entries of trace t made by adapter method fn
RECURSIVE Entries(_, _)
Entries(t, fn) ==
    IF t = <<>> THEN <<>>
    ELSE (IF Head(t).fn = fn THEN <<Head(t)>> ELSE <<>>) \o Entries(Tail(t), fn)

\* the create_node entries of trace t for label (want TRUE) or for any other label
RECURSIVE Created(_, _, _)
Created(t, label, want) ==
    IF t = <<>> THEN <<>>
    ELSE (IF Head(t).fn = "create_node" /\ ((Head(t).label = label) = want)
          THEN <<Head(t)>> ELSE <<>>) \o Created(Tail(t), label, want)

\* C1: dual-store invariant.  In every reachable state, every vector document
\* whose metadata graph_id is populated refers to exactly one existing graph
\* node, and that node has the label matching the document's type.
C1_DualStoreInvariant ==
    \A d \in vdocs :
        TruthyStr(Get(d.metadata, "graph_id")) =>
            Cardinality({n \in nodes : /\ Str(n.id) = d.metadata.graph_id
                                       /\ n.label = LabelOfType(Get(d.metadata, "type"))}) = 1

\* C1 witness: a document with a populated graph_id is in the vector store
C1_Witness ==
    \E d \in vdocs : TruthyStr(Get(d.metadata, "graph_id"))

\* C2: store_fact returns the id of the Fact node it created whenever it
\* created one, and None exactly when it created none, whatever became of the
\* entity writes and of the vector write.
C2_StoreFactReturnsNodeId ==
    [][call'.op = "store_fact" =>
        LET created == {n \in nodes' \ nodes : n.label = "Fact"}
        IN  IF created = {} THEN call'.ret = None
            ELSE \E n \in created : call'.ret = n.id]_vars

\* C2 witness: store_fact has returned an id although the vector store failed
C2_Witness ==
    /\ call.op = "store_fact"
    /\ call.ret # None
    /\ \E i \in DOMAIN call.trace : call.trace[i].fn = "add_documents" /\ ~call.trace[i].ok

\* C3: after a store_fact call whose Fact node was created and whose vector
\* store did not fail, exactly one vector document has the id "fact_" + id,
\* with type "fact", the given source ("agent" when none is given) and
\* graph_id the stringified id that the call returned, for every id from 0 on.
C3_FactMirrored ==
    (/\ call.op = "store_fact"
     /\ \E i \in DOMAIN call.trace :
            call.trace[i].fn = "create_node" /\ call.trace[i].label = "Fact" /\ call.trace[i].ok
     /\ \E i \in DOMAIN call.trace : call.trace[i].fn = "add_documents" /\ call.trace[i].ok)
    => /\ call.ret # None
       /\ Cardinality({d \in vdocs : d.id = "fact_" \o Str(call.ret)}) = 1
       /\ \A d \in vdocs :
            d.id = "fact_" \o Str(call.ret) =>
                d.metadata = [type |-> "fact",
                              source |-> IF call.source = NoneStr THEN "agent" ELSE call.source,
                              graph_id |-> Str(call.ret)]

\* C3 witness: a store_fact call created its Fact node and mirrored it
C3_Witness ==
    /\ call.op = "store_fact"
    /\ call.ret # None
    /\ \E d \in vdocs : d.id = "fact_" \o Str(call.ret)

\* the Fact node creation of the call with trace t failed
FactCreateFailed(t) ==
    \E i \in DOMAIN t : t[i].fn = "create_node" /\ t[i].label = "Fact" /\ t[i].ret = None

\* C4: a store_fact call whose Fact node creation fails leaves both stores
\* unchanged: no node, no relationship and no vector document is added, and
\* the vector write it attempts is refused.
C4_FailedFactLeavesStores ==
    [][(call'.op = "store_fact" /\ FactCreateFailed(call'.trace)) =>
        /\ nodes' = nodes
        /\ rels' = rels
        /\ vdocs' = vdocs
        /\ \A i \in DOMAIN call'.trace :
              call'.trace[i].fn = "add_documents" => ~call'.trace[i].ret]_vars

\* C4 witness: the Fact node creation failed in a call that had related
\* entities and a working vector store
C4_Witness ==
    /\ call.op = "store_fact"
    /\ FactCreateFailed(call.trace)
    /\ call.related_entities # <<>>
    /\ \E i \in DOMAIN call.trace : call.trace[i].fn = "add_documents" /\ call.trace[i].ok

\* C5: in a store_fact call that reaches its entity loop (the Fact node id is
\* truthy), every related entity gets its create_node call, in input order,
\* whether or not an earlier entity's node or relationship failed; every
\* entity node that was created is in the graph; the vector write is still
\* attempted last; and the Fact node id is returned.
C5_EntityFailureSkipped ==
    (call.op = "store_fact" /\ Len(Created(call.trace, "Fact", TRUE)) = 1
        /\ Truthy(Created(call.trace, "Fact", TRUE)[1].ret)) =>
        LET ents == Created(call.trace, "Fact", FALSE)
        IN  /\ Len(ents) = Len(call.related_entities)
            /\ \A i \in DOMAIN ents :
                  /\ ents[i].props.name = call.related_entities[i].name
                  /\ ents[i].ok =>
                        \E n \in nodes : n.id = ents[i].ret /\ n.props = ents[i].props
            /\ \A i \in DOMAIN call.trace :
                  (call.trace[i].fn = "create_relationship" /\ call.trace[i].ret) =>
                      [start |-> call.ret, end |-> call.trace[i].end, type |-> "MENTIONS"] \in rels
            /\ Len(Entries(call.trace, "create_relationship"))
                 = Cardinality({i \in DOMAIN ents : Truthy(ents[i].ret)})
            /\ call.trace[Len(call.trace)].fn = "add_documents"
            /\ call.ret = Created(call.trace, "Fact", TRUE)[1].ret

\* C5 witness: the first entity's node failed, the second entity's node and
\* relationship were created, and the fact id was returned
C5_Witness ==
    /\ call.op = "store_fact"
    /\ call.ret # None
    /\ Len(Created(call.trace, "Fact", FALSE)) = 2
    /\ ~Created(call.trace, "Fact", FALSE)[1].ok
    /\ Created(call.trace, "Fact", FALSE)[2].ok
    /\ \E i \in DOMAIN call.trace : call.trace[i].fn = "create_relationship" /\ call.trace[i].ret

\* C6: when no store call fails, every Fact node and every Conversation node
\* has exactly one vector document whose graph_id is its stringified id and
\* whose type matches its label.
C6_EveryRecordMirrored ==
    \A n \in nodes :
        n.label \in {"Fact", "Conversation"} =>
            Cardinality({d \in vdocs : /\ Get(d.metadata, "graph_id") = Str(n.id)
                                       /\ LabelOfType(Get(d.metadata, "type")) = n.label}) = 1

\* C6 witness: a Fact node and a Conversation node are in the graph
C6_Witness ==
    /\ \E n \in nodes : n.label = "Fact"
    /\ \E n \in nodes : n.label = "Conversation"

C8_RoundTripOrdering ==
    (call.op = "store_conversation" /\ Len(Created(call.trace, "Conversation", TRUE)) = 1
        /\ Created(call.trace, "Conversation", TRUE)[1].ok) =>
        LET ms == MessagesOf(Stores, Created(call.trace, "Conversation", TRUE)[1].ret)
        IN  /\ Len(ms) = Len(call.messages)
            /\ \A i \in DOMAIN ms :
                  /\ ms[i].props.role = call.messages[i].role
                  /\ ms[i].props.content = call.messages[i].content

\* C8 witness: a conversation of two messages reads back in order
C8_Witness ==
    /\ call.op = "store_conversation"
    /\ Len(Created(call.trace, "Conversation", TRUE)) = 1
    /\ LET ms == MessagesOf(Stores, Created(call.trace, "Conversation", TRUE)[1].ret)
       IN  /\ Len(ms) = 2
           /\ ms[1].props.role = "user"
           /\ ms[2].props.role = "assistant"

\* C9: the vector document a store_conversation call writes has type
\* "conversation" and graph_id the stringified id of the Conversation node
\* of the same call, and carries every key of the caller's metadata.
C9_ConversationDocMetadata ==
    call.op = "store_conversation" =>
        \A i \in DOMAIN call.trace :
            (call.trace[i].fn = "add_documents" /\ call.trace[i].ret) =>
                /\ call.trace[i].metadata.type = "conversation"
                /\ call.trace[i].metadata.graph_id
                     = Str(Created(call.trace, "Conversation", TRUE)[1].ret)
                /\ \A k \in DOMAIN call.metadata : k \in DOMAIN call.trace[i].metadata

\* C9 witness: a store_conversation call has written its vector document
C9_Witness ==
    /\ call.op = "store_conversation"
    /\ \E i \in DOMAIN call.trace : call.trace[i].fn = "add_documents" /\ call.trace[i].ret

\* the hits the vector store returned to the call with trace t
HitsOf(t) == IF Len(Entries(t, "query")) = 0 THEN <<>> ELSE Entries(t, "query")[1].ret

\* C10: retrieve_relevant_memories returns (it does not raise) one result per
\* hit of the vector store, in the store's order and with the hit's id,
\* document and metadata, and never more than limit results.
C10_OneResultPerHit ==
    call.op = "retrieve_relevant_memories" =>
        /\ ~call.raised
        /\ Len(call.ret) = Len(HitsOf(call.trace))
        /\ Len(call.ret) <= call.limit
        /\ \A i \in DOMAIN call.ret :
              /\ call.ret[i].id = HitsOf(call.trace)[i].id
              /\ call.ret[i].document = HitsOf(call.trace)[i].document
              /\ call.ret[i].metadata = HitsOf(call.trace)[i].metadata

\* C10 witness: two hits came back enriched, in the store's order
C10_Witness ==
    /\ call.op = "retrieve_relevant_memories"
    /\ ~call.raised
    /\ Len(call.ret) = 2
    /\ Len(Entries(call.trace, "graph_query")) = 2

\* C11: retrieve_relevant_memories returns every hit with its vector fields
\* intact; a hit whose graph_id is absent or empty comes back as it is, a hit
\* of type fact with a populated graph_id carries exactly the nodes its Fact
\* node MENTIONS, and a hit of type conversation exactly the Message nodes
\* its Conversation node CONTAINS, in ascending order.
C11_EnrichmentExact ==
    call.op = "retrieve_relevant_memories" =>
        /\ ~call.raised
        /\ Len(call.ret) = Len(HitsOf(call.trace))
        /\ \A i \in DOMAIN call.ret :
              LET hit == HitsOf(call.trace)[i]
                  graph_id == Get(hit.metadata, "graph_id")
                  type == Get(hit.metadata, "type")
              IN  /\ \A k \in DOMAIN hit : k \in DOMAIN call.ret[i] /\ call.ret[i][k] = hit[k]
                  /\ ~TruthyStr(graph_id) => call.ret[i] = hit
                  /\ (TruthyStr(graph_id) /\ type = "fact") =>
                        /\ IsInt(graph_id)
                        /\ "related_entities" \in DOMAIN call.ret[i]
                        /\ call.ret[i].related_entities = MentionedBy(Stores, ParseInt(graph_id))
                  /\ (TruthyStr(graph_id) /\ type = "conversation") =>
                        /\ IsInt(graph_id)
                        /\ "messages" \in DOMAIN call.ret[i]
                        /\ call.ret[i].messages = MessagesOf(Stores, ParseInt(graph_id))

\* C11 witness: a fact hit came back with the two entities its Fact node
\* MENTIONS
C11_Witness ==
    /\ call.op = "retrieve_relevant_memories"
    /\ ~call.raised
    /\ \E i \in DOMAIN call.ret :
          /\ call.ret[i].metadata.type = "fact"
          /\ "related_entities" \in DOMAIN call.ret[i]
          /\ Cardinality(call.ret[i].related_entities) = 2


\* the elements of sequence s
Range(s) == {s[i] : i \in DOMAIN s}

\* C12: categorize_memories returns (it does not raise) two buckets that are
\* disjoint, hold at most 10 results together, and whose union is the set of
\* results retrieve_relevant_memories gave for the query and limit 10.
C12_CategorizePartition ==
    (call.op = "categorize_memories" /\ initialized) =>
        /\ ~call.raised
        /\ Range(call.ret.facts) \cap Range(call.ret.conversations) = {}
        /\ Len(call.ret.facts) + Len(call.ret.conversations) <= CategorizeLimit
        /\ Range(call.ret.facts) \cup Range(call.ret.conversations) = Range(call.memories)
        /\ Len(call.memories) = Len(HitsOf(call.trace))

\* C12 witness: a call has sorted the two results it was given into a bucket
C12_Witness ==
    /\ call.op = "categorize_memories"
    /\ ~call.raised
    /\ Len(call.memories) = 2
    /\ Len(call.ret.facts) + Len(call.ret.conversations) = 2


\* C13: after clear_memory("fact") on an initialized manager no Fact node
\* and no vector document of type fact remains, and a retrieve_by_entity_type
\* of "Fact" that follows returns the empty list; the same for "conversation"
\* with the Conversation nodes and the documents of type conversation.
C13_ClearByType ==
    [][/\ (/\ call'.op = "clear_memory"
           /\ call'.memory_type \in {"fact", "conversation"}
           /\ initialized') =>
              /\ \A n \in nodes' : n.label # LabelOfType(call'.memory_type)
              /\ \A d \in vdocs' : Get(d.metadata, "type") # call'.memory_type
       /\ (/\ call.op = "clear_memory"
           /\ call.memory_type \in {"fact", "conversation"}
           /\ initialized
           /\ call'.op = "retrieve_by_entity_type"
           /\ call'.entity_type = LabelOfType(call.memory_type)) =>
              call'.ret = {}]_vars

\* C13 witness: clear_memory("fact") has run on stores that held a Fact node
\* and its vector document
C13_Witness ==
    /\ call.op = "clear_memory"
    /\ call.memory_type = "fact"
    /\ initialized
    /\ \E n \in nodes : n.label = "Fact" /\ \E d \in vdocs : d.metadata.graph_id = Str(n.id)

\* C14: after clear_memory() with no argument on an initialized manager the
\* graph store holds no node and no relationship and the vector store no
\* document.
C14_ClearAll ==
    (call.op = "clear_memory" /\ call.memory_type = NoneStr /\ initialized) =>
        /\ nodes = {}
        /\ rels = {}
        /\ vdocs = {}

\* C14 witness: clear_memory() has run on stores that held a node and a
\* vector document
C14_Witness ==
    /\ call.op = "clear_memory"
    /\ call.memory_type = NoneStr
    /\ initialized
    /\ nodes # {}
    /\ vdocs # {}


\* what each public operation returns when it gives up
Sentinel(op) ==
    IF op = "store_fact" THEN [ret |-> None]
    ELSE IF op \in {"store_conversation", "clear_memory"} THEN [ret |-> FALSE]
    ELSE IF op \in {"retrieve_by_entity_type", "retrieve_entity_relationships"} THEN [ret |-> {}]
    ELSE IF op = "categorize_memories" THEN [ret |-> EmptyCategories]
    ELSE IF op = "get_entity_information" THEN [ret |-> NoEntityInformation]
    ELSE [ret |-> <<>>]

\* the call with record c returned (it did not raise) what it returns when it
\* gives up
GaveUp(c) ==
    /\ [ret |-> c.ret] = Sentinel(c.op)
    /\ "raised" \in DOMAIN c => ~c.raised

\* a connect call of the lazy initialization in trace t found its store
\* unreachable
ConnectFailed(t) ==
    \E i \in DOMAIN t : t[i].fn \in {"graph_connect", "vector_connect"} /\ ~t[i].ok

ListReads ==
    {"retrieve_relevant_memories", "retrieve_by_entity_type", "retrieve_entity_relationships",
     "retrieve_recent_memories", "retrieve_memories_by_source", "retrieve_related_facts"}

\* C16: on an initialized manager every public read operation, and in
\* particular retrieve_recent_memories, retrieve_memories_by_source and
\* retrieve_related_facts, completes by returning its (possibly empty) result;
\* a failing store call makes the result smaller, and nothing is raised.
C16_ReadsReturn ==
    (initialized /\ call.op \in ListReads \cup {"categorize_memories", "get_entity_information"}) =>
        ~call.raised

\* C16 witness: retrieve_recent_memories has run on an initialized manager
\* whose vector store holds a document
C16_Witness ==
    /\ initialized
    /\ call.op = "retrieve_recent_memories"
    /\ vdocs # {}


\* the vector document store_fact wrote for the Fact node with this id
FactDocument(id) == {d \in vdocs : d.id = VectorIdOf("fact_", id) /\ Truthy(id)}

\* C17: for a fact that store_fact wrote to both stores, retrieve_related_facts
\* called with the fact's own id returns a result, and the fact's own vector
\* document is not in it, whatever order the vector store ranks the
\* documents in.
C17_ExcludesItself ==
    (/\ call.op = "retrieve_related_facts"
     /\ initialized
     /\ FactById(Stores, FactIdValue(call.fact_id)) # {}
     /\ FactDocument(FactIdValue(call.fact_id)) # {}
     /\ \A i \in DOMAIN call.trace : call.trace[i].ok) =>
        /\ ~call.raised
        /\ \A i \in DOMAIN call.ret : call.ret[i] \notin FactDocument(FactIdValue(call.fact_id))

\* C17 witness: retrieve_related_facts has been called with the id of a fact
\* that is in both stores, next to another fact document
C17_Witness ==
    /\ call.op = "retrieve_related_facts"
    /\ initialized
    /\ FactById(Stores, FactIdValue(call.fact_id)) # {}
    /\ FactDocument(FactIdValue(call.fact_id)) # {}
    /\ Cardinality(OfType(vdocs, "fact")) >= 2


\* C18: retrieve_recent_memories returns a result, of at most limit documents,
\* each newer than the threshold (call.newer: the documents whose timestamp is
\* strictly greater than now - days at the call) and each of the given type
\* when a type is given.
C18_RecentOnly ==
    (call.op = "retrieve_recent_memories" /\ initialized) =>
        /\ ~call.raised
        /\ Len(call.ret) <= call.limit
        /\ \A i \in DOMAIN call.ret :
              /\ call.ret[i] \in call.newer
              /\ TruthyStr(call.memory_type) =>
                    Get(call.ret[i].metadata, "type") = call.memory_type

\* C18 witness: retrieve_recent_memories has been called for the facts while
\* one fact document is newer than the threshold and one is not
C18_Witness ==
    /\ call.op = "retrieve_recent_memories"
    /\ initialized
    /\ call.memory_type = "fact"
    /\ OfType(call.newer, "fact") # {}
    /\ OfType(vdocs \ call.newer, "fact") # {}


\* the response is not a JSON array of objects that each have the field
Malformed(response, field) ==
    \/ ~response.json
    \/ ~response.array
    \/ \E i \in DOMAIN response.items :
          ~response.items[i].obj \/ field \notin DOMAIN response.items[i].fields

\* the create_node entries of trace t for entity nodes
EntitiesCreated(t) ==
    {i \in DOMAIN t : t[i].fn = "create_node"
                      /\ t[i].label \notin {"Fact", "Conversation", "Message"}}

\* C19: when the entity extraction or the fact extraction comes back
\* malformed (not JSON, or JSON that is not an array of objects with the
\* expected field), knowledge_agent returns normally, stores no fact of a
\* malformed fact extraction and no entity of a malformed entity extraction.
C19_MalformedExtraction ==
    call.op = "knowledge_agent" =>
        /\ (Malformed(call.entity_response, "name") \/ Malformed(call.fact_response, "content"))
              => ~call.raised
        /\ Malformed(call.fact_response, "content")
              => Len(Created(call.trace, "Fact", TRUE)) = 0
        /\ Malformed(call.entity_response, "name") => EntitiesCreated(call.trace) = {}

\* C19 witness: an invocation on a connected manager has stored the
\* conversation and met a fact extraction that is not JSON
C19_Witness ==
    /\ call.op = "knowledge_agent"
    /\ initialized
    /\ ~call.fact_response.json
    /\ Len(Created(call.trace, "Conversation", TRUE)) = 1


Cleared(memory_type) ==
    IF memory_type = NoneStr THEN nodes = {} /\ rels = {} /\ vdocs = {}
    ELSE /\ \A n \in nodes : n.label # LabelOfType(memory_type)
         /\ \A d \in vdocs : Get(d.metadata, "type") # memory_type

\* a deletion call in trace t failed: the store failed, or the call raised
DeletionFailed(t) ==
    \E i \in DOMAIN t : /\ t[i].fn \in {"delete", "detach_delete"}
                        /\ (~t[i].ok \/ ("raised" \in DOMAIN t[i] /\ t[i].raised))

\* C21: clear_memory returns True only if, when it returns, the records it
\* was asked to delete are gone from the vector store and from the graph
\* store, and it returns False whenever one of its deletion calls failed.
C21_ClearReturn ==
    call.op = "clear_memory" =>
        /\ call.ret => Cleared(call.memory_type)
        /\ DeletionFailed(call.trace) => ~call.ret

\* C21 witness: clear_memory("fact") on an initialized manager has returned
\* False after its vector deletion failed, and a fact document is still there
C21_Witness ==
    /\ call.op = "clear_memory"
    /\ call.memory_type = "fact"
    /\ initialized
    /\ DeletionFailed(call.trace)
    /\ ~call.ret
    /\ OfType(vdocs, "fact") # {}


\* the public read operations
ReadOperations == ListReads \cup {"categorize_memories", "get_entity_information"}

ConversationPart(N, R, D) ==
    [nodes |-> {n \in N : n.label \in {"Conversation", "Message"}},
     rels |-> {r \in R : r.type = "CONTAINS"},
     vdocs |-> OfType(D, "conversation")]

\* the part of the stores that belongs to facts: the Fact nodes, the
\* MENTIONS relationships, the documents of type fact
FactPart(N, R, D) ==
    [nodes |-> {n \in N : n.label = "Fact"},
     rels |-> {r \in R : r.type = "MENTIONS"},
     vdocs |-> OfType(D, "fact")]

\* C23: clear_memory("fact") leaves every Conversation node, Message node,
\* CONTAINS relationship and vector document of type conversation as it was,
\* and clear_memory("conversation") leaves every Fact node, MENTIONS
\* relationship and vector document of type fact as it was.
C23_ClearTouchesOnlyType ==
    [][/\ (call'.op = "clear_memory" /\ call'.memory_type = "fact") =>
             ConversationPart(nodes', rels', vdocs') = ConversationPart(nodes, rels, vdocs)
       /\ (call'.op = "clear_memory" /\ call'.memory_type = "conversation") =>
             FactPart(nodes', rels', vdocs') = FactPart(nodes, rels, vdocs)]_vars

\* C23 witness: clear_memory("fact") has run on an initialized manager whose
\* stores hold a Fact node next to a conversation with its messages, its
\* CONTAINS relationships and its vector document
C23_Witness ==
    /\ call.op = "clear_memory"
    /\ call.memory_type = "fact"
    /\ initialized
    /\ \A i \in DOMAIN call.trace : call.trace[i].fn = "delete"
    /\ ConversationPart(nodes, rels, vdocs).rels # {}
    /\ ConversationPart(nodes, rels, vdocs).vdocs # {}


\* the store calls of trace t after the lazy initialization, in the order
\* they were issued
StoreCalls(t) == SelectSeq(t, LAMBDA e : e.fn \notin {"graph_connect", "vector_connect"})

\* in the store calls sc, every create_relationship call directly follows
\* the create_node call that gave its end node, and starts at the node that
\* the first call of sc created
RelationshipsFollowNodes(sc, type) ==
    \A k \in DOMAIN sc :
        sc[k].fn = "create_relationship" =>
            /\ k > 2
            /\ sc[k - 1].fn = "create_node"
            /\ sc[k].end = sc[k - 1].ret
            /\ sc[k].start = sc[1].ret
            /\ sc[k].type = type

\* the store calls sc are: a create_node for label, then only create_node
\* and create_relationship calls, then one add_documents
RecordFirstDocumentLast(sc, label) ==
    /\ Len(sc) >= 2
    /\ sc[1].fn = "create_node" /\ sc[1].label = label
    /\ sc[Len(sc)].fn = "add_documents"
    /\ \A k \in 2 .. (Len(sc) - 1) : sc[k].fn \in {"create_node", "create_relationship"}

\* C24: the store calls of one operation are issued one after another in a
\* fixed order.  store_fact: the Fact node, then for each related entity in
\* input order its node and then its relationship, then the vector document.
\* store_conversation: the Conversation node, then for each message in input
\* order its node and then its relationship, then the vector document.
\* clear_memory: the vector deletion first, a graph deletion only after it.
C24_StoreCallOrder ==
    LET sc == StoreCalls(call.trace)
    IN  /\ (call.op = "store_fact" /\ sc # <<>>) =>
              LET ents == Created(sc, "Fact", FALSE)
              IN  /\ RecordFirstDocumentLast(sc, "Fact")
                  /\ RelationshipsFollowNodes(sc, "MENTIONS")
                  /\ Len(ents) \in {0, Len(call.related_entities)}
                  /\ \A i \in DOMAIN ents :
                        /\ ents[i].props.name = call.related_entities[i].name
                        /\ ents[i].label = EntityLabel(call.related_entities[i])
        /\ (call.op = "store_conversation" /\ sc # <<>>) =>
              LET msgs == Created(sc, "Message", TRUE)
              IN  /\ RecordFirstDocumentLast(sc, "Conversation")
                  /\ RelationshipsFollowNodes(sc, "CONTAINS")
                  /\ Len(msgs) = Len(call.messages)
                  /\ Len(Created(sc, "Message", FALSE)) = 1
                  /\ \A i \in DOMAIN msgs :
                        /\ msgs[i].props.order = i - 1
                        /\ msgs[i].props.content = call.messages[i].content
        /\ (call.op = "clear_memory" /\ sc # <<>>) =>
              /\ sc[1].fn = "delete"
              /\ \A k \in DOMAIN sc :
                    /\ sc[k].fn \in {"delete", "detach_delete"}
                    /\ sc[k].fn = "detach_delete" => k = 2

\* C24 witness: a store_fact call has issued all six store calls for a fact
\* with two related entities
C24_Witness ==
    /\ call.op = "store_fact"
    /\ Len(StoreCalls(call.trace)) = 6
    /\ \A i \in DOMAIN call.trace : call.trace[i].ok


\* no call is in progress
Quiescent == \A c \in Callers : callers[c].pc = "idle"

\* the graph_id of document d is the id of a node that was created
GraphIdOfCreatedNode(d) ==
    /\ TruthyStr(Get(d.metadata, "graph_id"))
    /\ IsInt(d.metadata.graph_id)
    /\ ParseInt(d.metadata.graph_id) < nextId

\* C25: with two callers whose store_fact, store_conversation and
\* clear_memory calls interleave store call by store call, and no store call
\* failing, in every state in which no call is in progress every vector
\* document whose graph_id is the id of a node that was created refers to a
\* node that is still in the graph store.
C25_InterleavedDualStore ==
    Quiescent =>
        \A d \in vdocs :
            GraphIdOfCreatedNode(d) => \E n \in nodes : n.id = ParseInt(d.metadata.graph_id)

\* C25 witness: no call is in progress, and the store_fact call that
\* returned last wrote its vector document after a clear_memory call of the
\* other caller had taken its step between that call's store calls
C25_Witness ==
    /\ Quiescent
    /\ call.op = "store_fact"
    /\ "clear_memory" \in call.overlap
    /\ \E d \in vdocs : d.id = VectorIdOf("fact_", call.ret) /\ GraphIdOfCreatedNode(d)


\* the nodes of N that an entity dict with this name and type is stored as
NodesFor(N, entity) ==
    {n \in N : n.label = EntityLabel(entity) /\ Get(n.props, "name") = entity.name}

\* how many items of the list related_entities have the name and type of entity
Mentions(related_entities, entity) ==
    Cardinality({i \in DOMAIN related_entities :
                    /\ related_entities[i].name = entity.name
                    /\ EntityLabel(related_entities[i]) = EntityLabel(entity)})

\* C26: when no store call fails, every store_fact call that created its
\* Fact node adds, for each (name, type), as many new nodes as its list of
\* related entities mentions it, whether or not such a node exists already;
\* and the number of nodes of a (name, type) goes down in no call other
\* than clear_memory.
C26_EntitiesNeverMerged ==
    [][\A entity \in {Ann, Acme} :
          /\ (/\ call'.op = "store_fact"
              /\ \E n \in nodes' \ nodes : n.label = "Fact") =>
                 Cardinality(NodesFor(nodes', entity))
                    = Cardinality(NodesFor(nodes, entity))
                      + Mentions(call'.related_entities, entity)
          /\ call'.op # "clear_memory" =>
                 Cardinality(NodesFor(nodes', entity)) >= Cardinality(NodesFor(nodes, entity))]_vars

\* C26 witness: a store_fact call has created its Fact node and a node for
\* each of its two related entities
C26_Witness ==
    /\ call.op = "store_fact"
    /\ Len(call.related_entities) = 2
    /\ Len(Created(call.trace, "Fact", TRUE)) = 1
    /\ Len(Created(call.trace, "Fact", FALSE)) = 2
    /\ \A i \in 1 .. 2 : Created(call.trace, "Fact", FALSE)[i].ret \in {n.id : n \in nodes}


\* C27: in a store_conversation call that reaches its store calls, every
\* input message gets its create_node call, in input order and with order
\* its zero-based position, whatever failed for an earlier message; a
\* created Message node carries that order; and every CONTAINS relationship
\* that is created goes from the Conversation node the call created to a
\* Message node the call created.
C27_MessageOrderAndLinks ==
    (call.op = "store_conversation" /\ StoreCalls(call.trace) # <<>>) =>
        LET msgs == Created(call.trace, "Message", TRUE)
            conv == Created(call.trace, "Conversation", TRUE)[1]
        IN  /\ Len(msgs) = Len(call.messages)
            /\ \A i \in DOMAIN msgs :
                  /\ msgs[i].props.order = i - 1
                  /\ msgs[i].props.role = call.messages[i].role
                  /\ msgs[i].props.content = call.messages[i].content
                  /\ msgs[i].ok => \E n \in nodes : /\ n.id = msgs[i].ret
                                                    /\ n.label = "Message"
                                                    /\ n.props.order = i - 1
            /\ \A k \in DOMAIN call.trace :
                  (call.trace[k].fn = "create_relationship" /\ call.trace[k].ret) =>
                      /\ conv.ok
                      /\ call.trace[k].start = conv.ret
                      /\ \E i \in DOMAIN msgs : msgs[i].ok /\ msgs[i].ret = call.trace[k].end
                      /\ [start |-> conv.ret, end |-> call.trace[k].end, type |-> "CONTAINS"] \in rels

\* C27 witness: the first Message node failed, and the second message was
\* stored with order 1 and linked to the Conversation node
C27_Witness ==
    /\ call.op = "store_conversation"
    /\ Len(Created(call.trace, "Message", TRUE)) = 2
    /\ ~Created(call.trace, "Message", TRUE)[1].ok
    /\ Created(call.trace, "Message", TRUE)[2].ok
    /\ \E r \in rels : r.type = "CONTAINS" /\ r.end = Created(call.trace, "Message", TRUE)[2].ret


\* the CONTAINS relationships that reach node m from a Conversation node
\* that is in the graph
ContainedBy(m) ==
    {r \in rels : /\ r.type = "CONTAINS"
                  /\ r.end = m.id
                  /\ \E c \in nodes : c.id = r.start /\ c.label = "Conversation"}

\* C28: in every reachable state, every Message node is the target of
\* exactly one CONTAINS relationship from a Conversation node that exists.
C28_MessageHasOneConversation ==
    \A m \in nodes : m.label = "Message" => Cardinality(ContainedBy(m)) = 1

\* C28 witness: the graph holds a Message node that its Conversation node
\* CONTAINS
C28_Witness ==
    \E m \in nodes : m.label = "Message" /\ Cardinality(ContainedBy(m)) = 1


\* the positions of trace t at which a connect call was made
Connects(t) == {i \in DOMAIN t : t[i].fn \in {"graph_connect", "vector_connect"}}

\* C29: in every call of a public operation: the flag goes from false to
\* true only when the graph connect and the vector connect of that call's
\* initialize both succeeded; a call on a manager whose flag is false runs
\* initialize exactly once (one graph connect, then one vector connect,
\* before anything else); when that initialize fails the call makes no
\* other store call and changes neither store; and a call on a manager
\* whose flag is true runs no initialize and leaves the flag true.
C29_InitializedFlag ==
    [][/\ ~initialized =>
             /\ Connects(call'.trace) = {1, 2}
             /\ call'.trace[1].fn = "graph_connect"
             /\ call'.trace[2].fn = "vector_connect"
             /\ initialized' = (call'.trace[1].ok /\ call'.trace[2].ok)
             /\ ~initialized' =>
                   /\ Len(call'.trace) = 2
                   /\ UNCHANGED <<nodes, rels, nextId, vdocs>>
       /\ initialized =>
             /\ initialized'
             /\ Connects(call'.trace) = {}]_vars

\* C29 witness: a read operation on a manager whose flag was false found
\* the graph store connected and the vector store not, and made no other
\* store call
C29_Witness ==
    /\ call.op = "get_entity_information"
    /\ ~initialized
    /\ Len(call.trace) = 2
    /\ call.trace[1].ok
    /\ ~call.trace[2].ok


\* characters a and b are the same once lowercased
SameLowercased(a, b) ==
    \/ a = b
    \/ a \in DOMAIN LowerTable /\ LowerTable[a] = b
    \/ b \in DOMAIN LowerTable /\ LowerTable[b] = a

\* name occurs in content as a contiguous run, case ignored
OccursIgnoringCase(name, content) ==
    \E off \in 0 .. (Len(content) - Len(name)) :
        \A k \in 1 .. Len(name) : SameLowercased(name[k], content[off + k])

\* the names of the nodes that the node with this id MENTIONS
MentionedNames(id) ==
    {n.props.name : n \in {m \in nodes : [start |-> id, end |-> m.id, type |-> "MENTIONS"] \in rels}}

\* C30: in an invocation of knowledge_agent on a connected manager whose two
\* extractions are well-formed (the entities default to [] when their
\* response is no JSON), every parsed fact is stored, in input order, as a
\* Fact node with source "conversation" and a vector document with source
\* "conversation"; the nodes it MENTIONS are exactly the parsed entities
\* whose name, lowercased, occurs in the fact's content, lowercased, and none
\* when no entity matches.
C30_SubstringLinking ==
    (/\ call.op = "knowledge_agent"
     /\ initialized
     /\ ~call.raised
     /\ ~Malformed(call.fact_response, "content")
     /\ ~Malformed(ParsedEntities(call.entity_response), "name")) =>
        LET stored == Created(call.trace, "Fact", TRUE)
            facts == call.fact_response.items
            entities == ParsedEntities(call.entity_response).items
        IN  /\ Len(stored) = Len(facts)
            /\ \A i \in DOMAIN stored :
                  /\ stored[i].ok
                  /\ stored[i].props = [content |-> Text(facts[i].fields.content),
                                        source |-> "conversation"]
                  /\ \E d \in vdocs : /\ d.id = VectorIdOf("fact_", stored[i].ret)
                                      /\ d.metadata.source = "conversation"
                  /\ MentionedNames(stored[i].ret)
                       = {Text(entities[k].fields.name) :
                            k \in {j \in DOMAIN entities :
                                     OccursIgnoringCase(entities[j].fields.name,
                                                        facts[i].fields.content)}}

\* C30 witness: an invocation has stored the fact "ann ok" with a MENTIONS
\* relationship to the node of the entity "Ann"
C30_Witness ==
    /\ call.op = "knowledge_agent"
    /\ initialized
    /\ ~call.raised
    /\ Len(Created(call.trace, "Fact", TRUE)) = 1
    /\ MentionedNames(Created(call.trace, "Fact", TRUE)[1].ret) = {Text(AnnName)}


\* the Fact nodes among N that a MENTIONS relationship of R links to a node
\* of N named name
FactsAbout(N, R, name) ==
    {f \in N :
        /\ f.label = "Fact"
        /\ \E e \in N :
              /\ "name" \in DOMAIN e.props
              /\ e.props.name = name
              /\ \E r \in R : r.type = "MENTIONS" /\ r.start = f.id /\ r.end = e.id}

\* a store_fact call with this trace and return value created a node for an
\* entity named name and the MENTIONS relationship from its Fact node to it
MentionCreated(t, ret, name) ==
    \E i \in DOMAIN t, j \in DOMAIN t :
        /\ i < j
        /\ t[i].fn = "create_node"
        /\ t[i].label # "Fact"
        /\ t[i].props.name = name
        /\ t[i].ret # None
        /\ t[j].fn = "create_relationship"
        /\ t[j].start = ret
        /\ t[j].end = t[i].ret
        /\ t[j].ret

RetrievalEntry(e) ==
    \/ e.fn = "query"
    \/ e.fn = "graph_query" /\ e.kind \in {"mentions", "contains"}

\* an adapter call that writes a part of a conversation
ConversationEntry(e) ==
    \/ e.fn = "create_node" /\ e.label \in {"Conversation", "Message"}
    \/ e.fn = "create_relationship" /\ e.type = "CONTAINS"
    \/ e.fn = "add_documents" /\ e.metadata.type = "conversation"

\* an adapter call that writes a part of a fact
FactEntry(e) ==
    \/ e.fn = "create_node" /\ e.label \notin {"Conversation", "Message"}
    \/ e.fn = "create_relationship" /\ e.type = "MENTIONS"
    \/ e.fn = "add_documents" /\ e.metadata.type = "fact"

\* the elements of the list s
Elements(s) == {s[i] : i \in DOMAIN s}

\* the memories an invocation returned, from both of its retrievals
ReturnedMemories(ret) ==
    Elements(ret.memory_context) \cup Elements(ret.categorized_memories.facts)
        \cup Elements(ret.categorized_memories.conversations)

\* the graph nodes a returned memory carries
NodesOfMemory(m) ==
    (IF "related_entities" \in DOMAIN m THEN m.related_entities ELSE {})
        \cup (IF "messages" \in DOMAIN m THEN Elements(m.messages) ELSE {})

\* C32: within one knowledge_agent invocation every store call of the two
\* retrievals (retrieve_relevant_memories with limit 5, then
\* categorize_memories with limit 10) comes before every store call that
\* writes the conversation or an extracted fact, and every store call that
\* writes the conversation comes before every store call that writes a
\* fact; so each returned memory is a vector document that existed before
\* the invocation, enriched with graph nodes that existed before it, and
\* none is a record the invocation wrote.
C32_RetrievalBeforeWrites ==
    [][call'.op = "knowledge_agent" =>
          /\ \A i, j \in DOMAIN call'.trace :
                /\ (/\ RetrievalEntry(call'.trace[i])
                    /\ ConversationEntry(call'.trace[j]) \/ FactEntry(call'.trace[j])) => i < j
                /\ (/\ ConversationEntry(call'.trace[i])
                    /\ FactEntry(call'.trace[j])) => i < j
          /\ (\E j \in DOMAIN call'.trace :
                 ConversationEntry(call'.trace[j]) \/ FactEntry(call'.trace[j])) =>
                 /\ Len(Entries(call'.trace, "query")) = 2
                 /\ Entries(call'.trace, "query")[1].n_results = 5
                 /\ Entries(call'.trace, "query")[2].n_results = 10
                 /\ \E j \in DOMAIN call'.trace :
                       call'.trace[j].fn = "create_node" /\ call'.trace[j].label = "Conversation"
          /\ \A m \in ReturnedMemories(call'.ret) :
                /\ \E d \in vdocs : d.id = m.id /\ d.document = m.document
                /\ \A d \in vdocs' \ vdocs : d.id # m.id
                /\ NodesOfMemory(m) \subseteq nodes
                /\ NodesOfMemory(m) \cap (nodes' \ nodes) = {}]_vars

\* C32 witness: an invocation has retrieved a memory that was stored before
\* it and has then written its conversation, whose vector document is not
\* among the memories it returned
C32_Witness ==
    /\ call.op = "knowledge_agent"
    /\ ~call.raised
    /\ call.ret.memory_context # <<>>
    /\ call.ret.categorized_memories # EmptyCategories
    /\ Len(Created(call.trace, "Conversation", TRUE)) = 1
    /\ \E d \in vdocs :
          /\ d.id = VectorIdOf("conversation_", Created(call.trace, "Conversation", TRUE)[1].ret)
          /\ \A m \in ReturnedMemories(call.ret) : m.id # d.id

====
